---- MODULE Spec2Model ----
(***************************************************************************)
(* The classification engine of the DeepStack branding collector           *)
(* (src/src/deepstack_branding_collector.py): classify_colors and          *)
(* classify_fonts, each modelled as a state machine whose steps are the    *)
(* iterations of its loops, followed by its post-processing; the URL loop   *)
(* of the collector's main; and the analysis jobs of the web interface      *)
(* (src/app.py) with their worker threads and request handlers.            *)
(*                                                                         *)
(* Conventions:                                                            *)
(*  - Python strings are TLA+ strings; str.lower, re.search on the literal *)
(*    patterns of the source, str.split/strip are computed character by    *)
(*    character.                                                           *)
(*  - A Python dict whose iteration order matters is a sequence of         *)
(*    <<key, value>> pairs with distinct keys; a dict that is only looked  *)
(*    up is a function.                                                    *)
(*  - Confidence values are in hundredths: 95 stands for 0.95.             *)
(*  - Python's None is the string None, which is no color and no font.     *)
(*  - Each specification runs one part of the program; the variables of    *)
(*    the other parts keep their idle values.                              *)
(*  - The collector script the web interface runs is a process of its own: *)
(*    what it reads and writes is modelled after the branding collector.   *)
(***************************************************************************)
EXTENDS Integers, Sequences, FiniteSets, TLC

VARIABLES
    call,                 \* the function this behaviour executes
    color_palette,        \* argument of classify_colors
    computed_colors_dict, \* argument of classify_colors
    typography,           \* argument of classify_fonts
    typography_data,      \* argument of classify_fonts
    classification,       \* local of the running function
    confidence_scores,    \* local of the running function
    classified_colors,    \* local of classify_colors
    classified_fonts,     \* local of classify_fonts
    role, confidence, evidence,  \* locals of the loop body that ran last
    i,                    \* classify_colors, Pass 1: index of the next CSS variable
    j,                    \* classify_colors, Pass 2: index of the next (selector, prop) pair
    k,                    \* classify_fonts: index of the next selector
    returned,             \* the running function has returned
    previous,             \* the results of the earlier calls with these arguments
    \* main() of the collector
    urls_to_process,
    next_url,             \* position of the URL the loop processes next
    processed_urls_results_list,
    successful_fetches,
    failed_fetches,
    main_computed_colors,  \* main's local computed_colors: the page it was read from
    main_typography_data,  \* main's local typography_data: the page it was read from
    final_json_output,
    caught,               \* the exception the loop body caught last, if any
    main_pc,              \* position of main
    \* src/app.py
    analysis_jobs,        \* job_id -> the fields of the AnalysisJob
    worker,               \* job_id -> position of the job's thread in run_deepstack_analysis
    handler,              \* the get_result request being served, if any
    response,             \* the last response sent
    files                 \* path -> content of the files the jobs share

args == <<call, color_palette, computed_colors_dict, typography, typography_data>>

collector == <<urls_to_process, next_url, processed_urls_results_list, successful_fetches,
               failed_fetches, main_computed_colors, main_typography_data, final_json_output,
               caught, main_pc>>

server == <<analysis_jobs, worker, handler, response, files>>

locals == <<classification, confidence_scores, classified_colors, classified_fonts,
            role, confidence, evidence, i, j, k, returned>>

vars == <<args, classification, confidence_scores, classified_colors, classified_fonts,
          role, confidence, evidence, i, j, k, returned, previous, collector, server>>

None == "None"

EmptyDict == <<>>

\* An optional dict: None, or the dict.
NoData == <<>>
Some(d) == <<d>>

\* ------------------------------------------------------------------ strings

Min(a, b) == IF a <= b THEN a ELSE b

UpperCase == "ABCDEFGHIJKLMNOPQRSTUVWXYZ"
LowerCase == "abcdefghijklmnopqrstuvwxyz"
Digits == "0123456789"

CharAt(s, n) == SubSeq(s, n, n)

\* The set of the characters of a string
Chars(s) == {CharAt(s, n) : n \in 1..Len(s)}

\* c (one character) occurs in the string chars
CharIn(c, chars) == c \in Chars(chars)

LowerOf == [c \in Chars(UpperCase) |->
              CharAt(LowerCase, CHOOSE n \in 1..Len(UpperCase) : CharAt(UpperCase, n) = c)]

DigitChars == Chars(Digits)

LowerChar(c) == IF c \in DOMAIN LowerOf THEN LowerOf[c] ELSE c

RECURSIVE Lower(_)
\* str.lower()
Lower(s) == IF Len(s) = 0 THEN "" ELSE LowerChar(CharAt(s, 1)) \o Lower(SubSeq(s, 2, Len(s)))

\* `p in s`, and re.search(p, s) for a pattern p without metacharacters
Contains(s, p) == \E n \in 1..(Len(s) - Len(p) + 1) : SubSeq(s, n, n + Len(p) - 1) = p

\* re.search(r'-\d+$', s)
EndsInNumericSuffix(s) ==
    \E n \in 1..(Len(s) - 1) :
        /\ CharAt(s, n) = "-"
        /\ \A m \in (n + 1)..Len(s) : CharAt(s, m) \in DigitChars

Whitespace == " \t\n\r\f"

RECURSIVE LStrip(_, _)
\* str.lstrip(chars)
LStrip(s, chars) ==
    IF Len(s) > 0 /\ CharIn(CharAt(s, 1), chars) THEN LStrip(SubSeq(s, 2, Len(s)), chars) ELSE s

RECURSIVE RStrip(_, _)
\* str.rstrip(chars)
RStrip(s, chars) ==
    IF Len(s) > 0 /\ CharIn(CharAt(s, Len(s)), chars)
    THEN RStrip(SubSeq(s, 1, Len(s) - 1), chars)
    ELSE s

\* str.strip(chars)
Strip(s, chars) == RStrip(LStrip(s, chars), chars)

\* s.split(sep)[0] for a one-character separator
FirstField(s, sep) ==
    IF CharIn(sep, s)
    THEN SubSeq(s, 1, (CHOOSE n \in 1..Len(s) :
                          /\ CharAt(s, n) = sep
                          /\ \A m \in 1..(n - 1) : CharAt(s, m) # sep) - 1)
    ELSE s

RECURSIVE SkipChars(_, _, _)
\* The position after the longest run of characters of the set chars that
\* starts at position n of s.
SkipChars(s, n, chars) ==
    IF n <= Len(s) /\ CharAt(s, n) \in chars THEN SkipChars(s, n + 1, chars) ELSE n

\* ------------------------------------------------------------------ dicts

\* d.get(key, default)
Get(d, key, default) == IF key \in DOMAIN d THEN d[key] ELSE default

Range(s) == {s[n] : n \in DOMAIN s}

Contents(list) == {list[n] : n \in 1..Len(list)}

\* Faulty variant of Truncate: the list is not cut.
TruncateNothing(list, n) == list

\* list[:n]
Truncate(list, n) == SubSeq(list, 1, Min(n, Len(list)))

\* ------------------------------------------------------------------ classify_colors

primary_patterns == <<"primary", "brand", "main", "hero">>
accent_patterns == <<"accent", "secondary", "highlight", "alt">>
neutral_patterns == <<"gray", "grey", "black", "white", "neutral">>
success_patterns == <<"success", "positive">>
error_patterns == <<"error", "danger", "negative">>
warning_patterns == <<"warning", "caution", "alert">>
info_patterns == <<"info", "notice">>
color_name_patterns == <<"color-red", "color-orange", "color-yellow", "color-green",
                         "color-blue", "color-purple", "color-pink", "color-teal",
                         "color-magenta", "color-cyan">>

\* any(re.search(pattern, var_lower) for pattern in patterns)
AnyPattern(patterns, var_lower) ==
    \E n \in 1..Len(patterns) : Contains(var_lower, patterns[n])

\* Faulty variant of PatternGroup: the accent patterns are tested before the
\* primary patterns.
PatternGroupAccentFirst(var_lower) ==
    IF AnyPattern(accent_patterns, var_lower) THEN "accent"
    ELSE IF AnyPattern(primary_patterns, var_lower) THEN "primary"
    ELSE IF AnyPattern(neutral_patterns, var_lower) THEN "neutral"
    ELSE IF AnyPattern(success_patterns, var_lower) THEN "success"
    ELSE IF AnyPattern(error_patterns, var_lower) THEN "error"
    ELSE IF AnyPattern(warning_patterns, var_lower) THEN "warning"
    ELSE IF AnyPattern(info_patterns, var_lower) THEN "info"
    ELSE IF AnyPattern(color_name_patterns, var_lower) THEN "color_name"
    ELSE "none"

\* Faulty variant of PatternGroup: a name that matches no group is handled as
\* a neutral name.
PatternGroupDefaultNeutral(var_lower) ==
    IF AnyPattern(primary_patterns, var_lower) THEN "primary"
    ELSE IF AnyPattern(accent_patterns, var_lower) THEN "accent"
    ELSE IF AnyPattern(neutral_patterns, var_lower) THEN "neutral"
    ELSE IF AnyPattern(success_patterns, var_lower) THEN "success"
    ELSE IF AnyPattern(error_patterns, var_lower) THEN "error"
    ELSE IF AnyPattern(warning_patterns, var_lower) THEN "warning"
    ELSE IF AnyPattern(info_patterns, var_lower) THEN "info"
    ELSE IF AnyPattern(color_name_patterns, var_lower) THEN "color_name"
    ELSE "neutral"

\* The if/elif ladder of Pass 1: the branch taken for a lower-cased variable name.
PatternGroup(var_lower) ==
    IF AnyPattern(primary_patterns, var_lower) THEN "primary"
    ELSE IF AnyPattern(accent_patterns, var_lower) THEN "accent"
    ELSE IF AnyPattern(neutral_patterns, var_lower) THEN "neutral"
    ELSE IF AnyPattern(success_patterns, var_lower) THEN "success"
    ELSE IF AnyPattern(error_patterns, var_lower) THEN "error"
    ELSE IF AnyPattern(warning_patterns, var_lower) THEN "warning"
    ELSE IF AnyPattern(info_patterns, var_lower) THEN "info"
    ELSE IF AnyPattern(color_name_patterns, var_lower) THEN "color_name"
    ELSE "none"

\* Faulty variant of IsBaseColorName: the numeric suffix is not tested.
IsBaseColorNameAnySuffix(var_lower) ==
    ~ \E modifier \in {"-light", "-dark", "-lighter", "-darker"} : Contains(var_lower, modifier)

\* The condition under which a named-color variable is a base color.
IsBaseColorName(var_lower) ==
    /\ ~ \E modifier \in {"-light", "-dark", "-lighter", "-darker"} : Contains(var_lower, modifier)
    /\ ~ EndsInNumericSuffix(var_lower)

BucketGroups == {"primary", "accent", "neutral"}
UtilityGroups == {"success", "error", "warning", "info"}

\* The classification key a bucket group appends to.
BucketOf(group) ==
    CASE group = "primary" -> "primary"
      [] group = "accent" -> "accents"
      [] group = "neutral" -> "neutrals"

\* Faulty variant of GroupRole: the info branch leaves the role unset.
GroupRoleInfoUnset(group, var_lower) ==
    CASE group = "primary" -> "primary"
      [] group = "accent" -> "accent"
      [] group = "neutral" -> "neutral"
      [] group = "success" -> "utility_success"
      [] group = "error" -> "utility_error"
      [] group = "warning" -> "utility_warning"
      [] group = "color_name" -> IF IsBaseColorName(var_lower) THEN "accent" ELSE None
      [] OTHER -> None

\* The role and confidence the branch of a group assigns.
GroupRole(group, var_lower) ==
    CASE group = "primary" -> "primary"
      [] group = "accent" -> "accent"
      [] group = "neutral" -> "neutral"
      [] group = "success" -> "utility_success"
      [] group = "error" -> "utility_error"
      [] group = "warning" -> "utility_warning"
      [] group = "info" -> "utility_info"
      [] group = "color_name" -> IF IsBaseColorName(var_lower) THEN "accent" ELSE None
      [] OTHER -> None

\* Faulty variant of GroupConfidence: the named-color branch leaves the
\* confidence at its initial value.
GroupConfidenceNamedUnset(group, var_lower) ==
    CASE group = "primary" -> 95
      [] group = "accent" -> 90
      [] group = "neutral" -> 95
      [] group = "success" -> 90
      [] group = "error" -> 90
      [] group = "warning" -> 90
      [] group = "info" -> 85
      [] OTHER -> 0

GroupConfidence(group, var_lower) ==
    CASE group = "primary" -> 95
      [] group = "accent" -> 90
      [] group = "neutral" -> 95
      [] group = "success" -> 90
      [] group = "error" -> 90
      [] group = "warning" -> 90
      [] group = "info" -> 85
      [] group = "color_name" -> IF IsBaseColorName(var_lower) THEN 85 ELSE 0
      [] OTHER -> 0

\* Faulty variant of AppendIfNew: the color is appended in lower case.
AppendIfNewLowered(cls, bucket, color_value, classified) ==
    IF color_value \notin classified
    THEN [cls EXCEPT ![bucket] = Append(@, Lower(color_value))]
    ELSE cls

\* classification[bucket].append(color_value) guarded by the set of classified colors
AppendIfNew(cls, bucket, color_value, classified) ==
    IF color_value \notin classified
    THEN [cls EXCEPT ![bucket] = Append(@, color_value)]
    ELSE cls

\* classification["utility"][slot] = color_value
SetUtility(cls, slot, color_value) ==
    [cls EXCEPT !.utility[slot] = color_value]

\* Faulty variant of RecordConfidence: an existing record is overwritten.
RecordConfidenceOverwriting(scores, value, r, c, e) ==
    IF r # None
    THEN [v \in DOMAIN scores \cup {value} |->
            IF v = value THEN [role |-> r, confidence |-> c, evidence |-> e] ELSE scores[v]]
    ELSE scores

\* "Record confidence if classified"
RecordConfidence(scores, value, r, c, e) ==
    IF r # None /\ value \notin DOMAIN scores
    THEN [v \in DOMAIN scores \cup {value} |->
            IF v = value THEN [role |-> r, confidence |-> c, evidence |-> e] ELSE scores[v]]
    ELSE scores

css_vars == Get(color_palette, "css_custom_properties", EmptyDict)
frequency == Get(color_palette, "color_frequency", EmptyDict)

RECURSIVE Items(_, _)
\* The (selector, prop, color_value) triples in the order the nested loops of
\* Pass 2 visit them, from position n of the outer dict on.
Items(d, n) ==
    IF n > Len(d) THEN <<>>
    ELSE [m \in 1..Len(d[n][2]) |-> <<d[n][1], d[n][2][m][1], d[n][2][m][2]>>] \o Items(d, n + 1)

computed_items == Items(computed_colors_dict, 1)

important_selectors == {"h1", "h2", "button", "[class*=\"primary\"]", ".hero"}
accent_selectors == {"[class*=\"secondary\"]", "a"}

InPass1 == call = "classify_colors" /\ i <= Len(css_vars)
InPass2 == call = "classify_colors" /\ i > Len(css_vars) /\ j <= Len(computed_items)
AtLimit == call = "classify_colors" /\ i > Len(css_vars) /\ j > Len(computed_items) /\ ~returned

\* One iteration of "for var_name, color_value in css_vars.items()".
Pass1Step ==
    /\ InPass1
    /\ LET var_name == css_vars[i][1]
           color_value == css_vars[i][2]
           var_lower == Lower(var_name)
           group == PatternGroup(var_lower)
           base == group = "color_name" /\ IsBaseColorName(var_lower)
           r == GroupRole(group, var_lower)
           c == GroupConfidence(group, var_lower)
           e == IF base
                THEN <<"CSS variable name: " \o var_name, "Named color variable">>
                ELSE <<"CSS variable name: " \o var_name>>
       IN /\ classification' =
                IF group \in BucketGroups
                THEN AppendIfNew(classification, BucketOf(group), color_value, classified_colors)
                ELSE IF group \in UtilityGroups
                THEN SetUtility(classification, group, color_value)
                ELSE IF base
                THEN AppendIfNew(classification, "accents", color_value, classified_colors)
                ELSE classification
          /\ classified_colors' =
                IF group \in BucketGroups \cup UtilityGroups \/ base
                THEN classified_colors \cup {color_value}
                ELSE classified_colors
          /\ role' = r
          /\ confidence' = c
          /\ evidence' = e
          /\ confidence_scores' = RecordConfidence(confidence_scores, color_value, r, c, e)
    /\ i' = i + 1
    /\ UNCHANGED <<args, previous, collector, server, classified_fonts, j, k, returned>>

\* Faulty variant of AlreadyClassified: Pass 2 skips no color.
AlreadyClassifiedNever(color_value, classified) == FALSE

\* "if color_value in classified_colors: continue"
AlreadyClassified(color_value, classified) == color_value \in classified

\* Faulty variant of IsHighFrequency: a count of 5 is not high.
IsHighFrequencyAbove(freq_count) == freq_count > 5

\* "if freq_count >= 5"
IsHighFrequency(freq_count) == freq_count >= 5

\* "if 2 <= freq_count < 10"
IsModerateFrequency(freq_count) == 2 <= freq_count /\ freq_count < 10

\* classification[bucket].append(color_value) guarded by the bucket's own content
AppendIfAbsent(cls, bucket, color_value) ==
    IF color_value \notin Contents(cls[bucket])
    THEN [cls EXCEPT ![bucket] = Append(@, color_value)]
    ELSE cls

\* One iteration of the inner loop "for prop, color_value in styles.items()".
Pass2Step ==
    /\ InPass2
    /\ LET selector == computed_items[j][1]
           prop == computed_items[j][2]
           color_value == computed_items[j][3]
           freq_count == Get(frequency, color_value, 0)
           high == selector \in important_selectors /\ IsHighFrequency(freq_count)
           moderate == selector \in accent_selectors /\ ~high /\ IsModerateFrequency(freq_count)
           found == "Found in " \o selector \o "." \o prop
           r == IF high THEN "primary" ELSE IF moderate THEN "accent" ELSE None
           c == IF high THEN 75 ELSE IF moderate THEN 65 ELSE 50
           e == IF high
                THEN <<found, "High frequency: " \o ToString(freq_count) \o " uses",
                       "Used in important element: " \o selector>>
                ELSE IF moderate
                THEN <<found, "Moderate frequency: " \o ToString(freq_count) \o " uses",
                       "Used in accent element: " \o selector>>
                ELSE <<found>>
           bucket == IF high THEN "primary" ELSE "accents"
       IN IF AlreadyClassified(color_value, classified_colors)
          THEN UNCHANGED <<classification, classified_colors, role, confidence, evidence,
                           confidence_scores>>
          ELSE /\ classification' =
                     IF high \/ moderate
                     THEN AppendIfAbsent(classification, bucket, color_value)
                     ELSE classification
               /\ classified_colors' =
                     IF (high \/ moderate) /\ color_value \notin Contents(classification[bucket])
                     THEN classified_colors \cup {color_value}
                     ELSE classified_colors
               /\ role' = r
               /\ confidence' = c
               /\ evidence' = e
               /\ confidence_scores' = RecordConfidence(confidence_scores, color_value, r, c, e)
    /\ j' = j + 1
    /\ UNCHANGED <<args, previous, collector, server, classified_fonts, i, k, returned>>

\* "Limit to reasonable numbers" and the return of classify_colors.
LimitColors ==
    /\ AtLimit
    /\ classification' = [classification EXCEPT
                            !.primary = Truncate(@, 2),
                            !.accents = Truncate(@, 8),
                            !.neutrals = Truncate(@, 5)]
    /\ returned' = TRUE
    /\ UNCHANGED <<args, previous, collector, server, confidence_scores, classified_colors,
                   classified_fonts, role, confidence, evidence, i, j, k>>

\* ------------------------------------------------------------------ classify_fonts

typeface_hierarchy == Get(typography, "typeface_hierarchy", EmptyDict)

\* "Clean up font family string (remove quotes, fallbacks)"
CleanFont(font_family) == Strip(Strip(Strip(FirstField(font_family, ","), Whitespace), "\""), "'")

\* Python truth value of a slot: None and the empty string are false.
Falsy(value) == value = None \/ value = ""

\* "if not font_family or font_family in classified_fonts: continue"
SkipFont(font_family, classified) == font_family = "" \/ font_family \in classified

\* "'mono' in font_family.lower() or 'code' in font_family.lower()"
IsMonospace(font_family) ==
    Contains(Lower(font_family), "mono") \/ Contains(Lower(font_family), "code")

heading_selectors == {"h1", "h2", "h3"}
body_selectors == {"body", "p"}
special_selectors == {"button", ".btn", "nav", "strong"}

\* Faulty variant of FontBranch: the monospace test comes first.
FontBranchMonospaceFirst(selector, font_family, font_clean, cls, classified) ==
    IF IsMonospace(font_family) THEN "monospace_code"
    ELSE IF selector \in heading_selectors /\ Falsy(cls.primary_heading) THEN "primary_heading"
    ELSE IF selector \in body_selectors /\ Falsy(cls.body_text) THEN "body_text"
    ELSE IF selector \in special_selectors /\ font_clean \notin classified THEN "accent_display"
    ELSE "none"

\* The if/elif ladder of classify_fonts: the branch taken.
FontBranch(selector, font_family, font_clean, cls, classified) ==
    IF selector \in heading_selectors /\ Falsy(cls.primary_heading) THEN "primary_heading"
    ELSE IF selector \in body_selectors /\ Falsy(cls.body_text) THEN "body_text"
    ELSE IF IsMonospace(font_family) THEN "monospace_code"
    ELSE IF selector \in special_selectors /\ font_clean \notin classified THEN "accent_display"
    ELSE "none"

InFonts == call = "classify_fonts" /\ k <= Len(typography_data)
AtFontsEnd == call = "classify_fonts" /\ k > Len(typography_data) /\ ~returned

\* One iteration of "for selector, styles in typography_data.items()".
FontStep ==
    /\ InFonts
    /\ LET selector == typography_data[k][1]
           styles == typography_data[k][2]
           font_family == Get(styles, "fontFamily", "")
           font_clean == CleanFont(font_family)
           branch == FontBranch(selector, font_family, font_clean, classification,
                                classified_fonts)
           slot == branch \in {"primary_heading", "body_text", "monospace_code"}
           accent == /\ branch = "accent_display"
                     /\ font_clean \notin {classification.primary_heading,
                                           classification.body_text}
           used == "Used in: " \o selector
           r == CASE branch = "primary_heading" -> "primary_heading"
                  [] branch = "body_text" -> "body_text"
                  [] branch = "monospace_code" -> "monospace"
                  [] accent -> "accent"
                  [] OTHER -> None
           c == CASE branch = "primary_heading" -> 90
                  [] branch = "body_text" -> 95
                  [] branch = "monospace_code" -> 90
                  [] accent -> 70
                  [] OTHER -> 0
           e == CASE branch = "primary_heading" -> <<used, "Used in primary headings">>
                  [] branch = "body_text" -> <<used, "Used in body text">>
                  [] branch = "monospace_code" -> <<used, "Monospace font family detected">>
                  [] accent -> <<used, "Used in special element: " \o selector>>
                  [] OTHER -> <<used>>
       IN IF SkipFont(font_family, classified_fonts)
          THEN UNCHANGED <<classification, classified_fonts, role, confidence, evidence,
                           confidence_scores>>
          ELSE /\ classification' =
                     IF slot THEN [classification EXCEPT ![branch] = font_clean]
                     ELSE IF accent
                     THEN [classification EXCEPT !.accent_display = Append(@, font_clean)]
                     ELSE classification
               /\ classified_fonts' =
                     IF slot \/ accent THEN classified_fonts \cup {font_clean}
                     ELSE classified_fonts
               /\ role' = r
               /\ confidence' = c
               /\ evidence' = e
               /\ confidence_scores' = RecordConfidence(confidence_scores, font_clean, r, c, e)
    /\ k' = k + 1
    /\ UNCHANGED <<args, previous, collector, server, classified_colors, i, j, returned>>

\* Faulty variant of AddUsage: the family is looked up without being cleaned.
AddUsageRawName(scores, font_family, usage_info) ==
    IF font_family \in DOMAIN scores
    THEN [scores EXCEPT ![font_family] =
             [role |-> @.role, confidence |-> @.confidence, evidence |-> @.evidence,
              used_in_elements |-> Get(usage_info, "used_in", <<>>),
              sample_size |-> Get(usage_info, "sample_size", None)]]
    ELSE scores

\* One iteration of "for font_family, usage_info in typeface_hierarchy.items()".
AddUsage(scores, font_family, usage_info) ==
    LET font_clean == CleanFont(font_family)
    IN IF font_clean \in DOMAIN scores
       THEN [scores EXCEPT ![font_clean] =
                [role |-> @.role, confidence |-> @.confidence, evidence |-> @.evidence,
                 used_in_elements |-> Get(usage_info, "used_in", <<>>),
                 sample_size |-> Get(usage_info, "sample_size", None)]]
       ELSE scores

RECURSIVE AddUsageFrom(_, _, _)
\* "Add usage information from typeface hierarchy", from position n on.
AddUsageFrom(scores, hierarchy, n) ==
    IF n > Len(hierarchy) THEN scores
    ELSE AddUsageFrom(AddUsage(scores, hierarchy[n][1], hierarchy[n][2]), hierarchy, n + 1)

\* "Limit accent fonts", the usage information and the return of classify_fonts.
FinishFonts ==
    /\ AtFontsEnd
    /\ classification' = [classification EXCEPT !.accent_display = Truncate(@, 3)]
    /\ confidence_scores' = AddUsageFrom(confidence_scores, typeface_hierarchy, 1)
    /\ returned' = TRUE
    /\ UNCHANGED <<args, previous, collector, server, classified_colors, classified_fonts,
                   role, confidence, evidence, i, j, k>>

\* ------------------------------------------------------------------ inputs

MaxVars == 2          \* CSS variables of a palette in VariableInputs
MaxItems == 2         \* selectors of computed colors in CrossInputs
MaxFreq == 10         \* largest count in ThresholdInputs
CapExcess == 1        \* candidates beyond each cap in CapInputs and FontCapInputs
MaxFontEntries == 2   \* selectors of the typography data in FontInputs

Colors == {"#1a73e8", "#888888"}

VarNames == {"--primary-color", "--Brand-Accent", "--secondary", "--text-gray-500",
             "--success", "--danger-notice", "--Warning-Info", "--info-color-blue",
             "--color-blue", "--color-blue-light", "--color-red-10", "--spacing"}

CrossVarNames == {"--primary-color", "--success", "--color-blue", "--color-blue-light"}

CrossSelectors == {"h1", "a", "footer"}

ThresholdSelectors == important_selectors \cup accent_selectors \cup {"body", "footer"}

Keys(d) == {d[n][1] : n \in 1..Len(d)}

RECURSIVE Dicts(_, _, _)
\* The dicts of at most n entries with keys in K and values in V, in every order.
Dicts(K, V, n) ==
    IF n = 0 THEN {<<>>}
    ELSE LET shorter == Dicts(K, V, n - 1)
         IN shorter \cup UNION {{Append(d, <<key, v>>) : key \in K \ Keys(d), v \in V} :
                                  d \in {x \in shorter : Len(x) = n - 1}}

\* The frequency tables over a subset of the colors with counts in N.
Tables(C, N) == UNION {[D -> N] : D \in SUBSET C}

\* Palettes of up to MaxVars variables, no computed colors.
VariableInputs ==
    {<<[css_custom_properties |-> css, color_frequency |-> EmptyDict], EmptyDict>> :
        css \in Dicts(VarNames, Colors, MaxVars)}

\* At most one variable, up to MaxItems selectors with one color each.
CrossInputs ==
    {<<[css_custom_properties |-> css, color_frequency |-> freq], computed>> :
        css \in Dicts(CrossVarNames, Colors, 1),
        freq \in Tables(Colors, {3, 6}),
        computed \in Dicts(CrossSelectors, {<< <<"color", c>> >> : c \in Colors}, MaxItems)}

\* One selector with one or two style properties, every count up to MaxFreq;
\* the palette may lack its keys.
ThresholdInputs ==
    {<<[color_frequency |-> freq], << <<selector, styles>> >> >> :
        selector \in ThresholdSelectors,
        freq \in Tables({"#1a73e8"}, 0..MaxFreq),
        styles \in {<< <<"color", "#1a73e8">> >>,
                    << <<"color", "#888888">>, <<"backgroundColor", "#1a73e8">> >>,
                    << <<"color", "#1a73e8">>, <<"backgroundColor", "#1a73e8">>,
                       <<"borderColor", "#1a73e8">> >>}}

CapColor(n) == "#" \o ToString(100000 + n)

\* np primary, na accent and nn neutral variables, each with a color of its own.
CapVars(np, na, nn) ==
    [n \in 1..np |-> <<"--primary-" \o ToString(n), CapColor(n)>>]
    \o [n \in 1..na |->
          <<IF n % 2 = 1 THEN "--accent-" \o ToString(n) ELSE "--color-teal-v" \o ToString(n),
            CapColor(np + n)>>]
    \o [n \in 1..nn |-> <<"--gray-" \o ToString(100 * n), CapColor(np + na + n)>>]

\* More candidates than the caps allow, by up to CapExcess; possibly a utility
\* variable that repeats the color of a primary variable, and a heading color.
CapInputs ==
    {<<[css_custom_properties |-> CapVars(np, na, nn) \o tail,
        color_frequency |-> [c \in {CapColor(0)} |-> 6]], computed>> :
        np \in 0..(2 + CapExcess), na \in 0..(8 + CapExcess), nn \in 0..(5 + CapExcess),
        tail \in {<<>>, << <<"--success", CapColor(1)>> >>,
                  << <<"--success", CapColor(2 + CapExcess)>> >>},
        computed \in {EmptyDict, << <<"h1", << <<"color", CapColor(0)>> >> >> >>}}

\* Nothing to classify: the palette lacks its keys or holds empty dicts.
EmptyInputs ==
    {<<palette, EmptyDict>> :
        palette \in {EmptyDict, [css_custom_properties |-> EmptyDict],
                     [color_frequency |-> EmptyDict],
                     [css_custom_properties |-> EmptyDict, color_frequency |-> EmptyDict]}}

MalformedValues == {"", "16px", "rgb(300, -1", "#1a73e8"}

\* Up to MaxVars variables whose values need not be colors.
MalformedInputs ==
    {<<[css_custom_properties |-> css], EmptyDict>> :
        css \in Dicts({"--spacing", "--font-size", "--primary-color"}, MalformedValues, MaxVars)}

\* Variables of which two can match the same utility group.
UtilityVarNames == {"--success", "--positive-green", "--error-red", "--danger"}

UtilityInputs ==
    {<<[css_custom_properties |-> css, color_frequency |-> EmptyDict], EmptyDict>> :
        css \in Dicts(UtilityVarNames, Colors, MaxVars)}

ColorInputs ==
    VariableInputs \cup CrossInputs \cup ThresholdInputs \cup CapInputs \cup EmptyInputs
        \cup MalformedInputs \cup UtilityInputs

FontFamilies == {"Georgia, serif", "Georgia", "'Georgia'", "\"Fira Mono\", monospace",
                 "Source Code Pro", ""}

FontSelectors == {"h1", "body", "code", "button"}

FontStyles == {[fontFamily |-> f, fontSize |-> "16px"] : f \in FontFamilies}
                 \cup {[fontSize |-> "16px"]}

Hierarchies ==
    {<<>>,
     << <<"Georgia, serif", [used_in |-> <<"h1", "h2">>, sample_size |-> "32px"]>> >>,
     << <<"\"Fira Mono\", monospace", [used_in |-> <<"code">>]>>,
        <<"Fira Mono", [sample_size |-> "14px"]>> >>}

\* Up to MaxFontEntries selectors, no typeface hierarchy.
FontInputs ==
    {<<EmptyDict, data>> : data \in Dicts(FontSelectors, FontStyles, MaxFontEntries)}

\* A typeface hierarchy beside the typography data of a heading and a code element.
HierarchyInputs ==
    {<<[typeface_hierarchy |-> h], data>> :
        h \in Hierarchies,
        data \in Dicts({"h1", "code"},
                       {[fontFamily |-> f] : f \in {"Georgia, serif", "Georgia",
                                                    "\"Fira Mono\", monospace"}},
                       MaxFontEntries)}

CapFonts == {"Inter", "Roboto", "Lato", "Oswald", "Inter, sans-serif"}

CapSelectors == <<"button", ".btn", "nav", "strong">>

\* The special selectors, up to CapExcess more than the cap of accent fonts.
FontCapInputs ==
    {<<EmptyDict, [n \in 1..Len(fonts) |-> <<CapSelectors[n], [fontFamily |-> fonts[n]]>>]>> :
        fonts \in UNION {[1..n -> CapFonts] :
                           n \in 0..Min(3 + CapExcess, Len(CapSelectors))}}

\* ------------------------------------------------------------------ specification

\* Faulty variant of StartColors: the utility slots start as empty strings.
StartColorsEmptyStrings(palette, computed) ==
    /\ call = "classify_colors"
    /\ color_palette = palette
    /\ computed_colors_dict = computed
    /\ typography = EmptyDict
    /\ typography_data = EmptyDict
    /\ classification = [primary |-> <<>>, accents |-> <<>>, neutrals |-> <<>>,
                         utility |-> [success |-> "", error |-> "",
                                      warning |-> "", info |-> ""]]

\* The state at the first loop of classify_colors(palette, computed).
StartColors(palette, computed) ==
    /\ call = "classify_colors"
    /\ color_palette = palette
    /\ computed_colors_dict = computed
    /\ typography = EmptyDict
    /\ typography_data = EmptyDict
    /\ classification = [primary |-> <<>>, accents |-> <<>>, neutrals |-> <<>>,
                         utility |-> [success |-> None, error |-> None,
                                      warning |-> None, info |-> None]]

\* The state at the loop of classify_fonts(typo, data).
StartFonts(typo, data) ==
    /\ call = "classify_fonts"
    /\ color_palette = EmptyDict
    /\ computed_colors_dict = EmptyDict
    /\ typography = typo
    /\ typography_data = data
    /\ classification = [primary_heading |-> None, body_text |-> None,
                         accent_display |-> <<>>, monospace_code |-> None]

\* A local of main that no assignment has bound; a bound one holds the
\* position of the URL whose page it was read from.
Unbound == 0

\* main() is not running.
CollectorIdle ==
    /\ urls_to_process = <<>>
    /\ next_url = 1
    /\ processed_urls_results_list = <<>>
    /\ successful_fetches = 0
    /\ failed_fetches = 0
    /\ main_computed_colors = Unbound
    /\ main_typography_data = Unbound
    /\ final_json_output = NoData
    /\ caught = None
    /\ main_pc = "idle"

\* No response has been sent.
NoResponse == [handler |-> "none", job_id |-> None, code |-> 0, body |-> None]

\* The web interface has no job and serves no request.
ServerIdle ==
    /\ analysis_jobs = <<>>
    /\ worker = <<>>
    /\ handler = <<>>
    /\ response = NoResponse
    /\ files = <<>>

Init ==
    /\ \/ \E input \in ColorInputs : StartColors(input[1], input[2])
       \/ \E input \in FontInputs \cup HierarchyInputs \cup FontCapInputs :
             StartFonts(input[1], input[2])
    /\ previous = <<>>
    /\ CollectorIdle
    /\ ServerIdle
    /\ confidence_scores = EmptyDict
    /\ classified_colors = {}
    /\ classified_fonts = {}
    /\ role = None
    /\ confidence = 0
    /\ evidence = <<>>
    /\ i = 1
    /\ j = 1
    /\ k = 1
    /\ returned = FALSE

Next == Pass1Step \/ Pass2Step \/ LimitColors \/ FontStep \/ FinishFonts

Spec == Init /\ [][Next]_vars

\* ------------------------------------------------------------------ main

MaxUrls == 3          \* lines of the URL file

\* s.startswith(prefix)
StartsWith(s, prefix) == Len(s) >= Len(prefix) /\ SubSeq(s, 1, Len(prefix)) = prefix

\* "if not url.startswith(('http://', 'https://')): url = 'https://' + url"
WithScheme(url) ==
    IF StartsWith(url, "http://") \/ StartsWith(url, "https://") THEN url
    ELSE "https://" \o url

RECURSIVE load_urls_from_file(_)
\* The URLs of the lines of the URL file.
load_urls_from_file(lines) ==
    IF Len(lines) = 0 THEN <<>>
    ELSE LET url == Strip(lines[1], Whitespace)
             rest == load_urls_from_file(SubSeq(lines, 2, Len(lines)))
         IN IF url # "" /\ ~StartsWith(url, "#") THEN <<WithScheme(url)>> \o rest ELSE rest

FileLines == {"https://a.example", " b.example", "# https://c.example", ""}

UrlArguments == {"https://a.example", "http://b.example", "c.example"}

\* The URL lists main can start with: the one of the --url argument or the
\* ones of a URL file of up to MaxUrls lines.
UrlLists ==
    {<<WithScheme(url)>> : url \in UrlArguments}
        \cup {load_urls_from_file(lines) : lines \in UNION {[1..n -> FileLines] : n \in 0..MaxUrls}}

\* Where the body of the URL loop can raise outside its inner try blocks:
\* before the extraction (new_page, goto, title, wait_for_selector, content),
\* between extraction and classification (the BeautifulSoup queries), after
\* the classification (page.title).
Faults == {"none", "navigation", "assets", "title"}

\* str(e) of the exception raised at a fault.
Message(fault) ==
    CASE fault = "navigation" -> "Timeout 90000ms exceeded."
      [] fault = "assets" -> "'NoneType' object has no attribute 'get'"
      [] fault = "title" -> "Target page, context or browser has been closed"
      [] fault = "classify" -> "name 'computed_colors' is not defined"

\* Faulty variant of ErrorResult: the details of the error are dropped.
ErrorResultWithoutDetails(current_url, e) ==
    [url |-> current_url, fetch_status |-> "error", error_details |-> None,
     page_title |-> None, data |-> NoData]

\* The url_result_object of the except branch.
ErrorResult(current_url, e) ==
    [url |-> current_url, fetch_status |-> "error", error_details |-> e,
     page_title |-> None, data |-> NoData]

\* The url_result_object of a processed page.
SuccessResult(current_url, data_for_json) ==
    [url |-> current_url, fetch_status |-> "success", error_details |-> None,
     page_title |-> "title of " \o current_url, data |-> Some(data_for_json)]

\* "if not urls_to_process: return"
NoUrls ==
    /\ main_pc = "start"
    /\ urls_to_process = <<>>
    /\ main_pc' = "returned"
    /\ UNCHANGED <<args, classification, confidence_scores, classified_colors, classified_fonts,
                   role, confidence, evidence, i, j, k, returned, previous, server,
                   urls_to_process, next_url, processed_urls_results_list, successful_fetches,
                   failed_fetches, main_computed_colors, main_typography_data,
                   final_json_output, caught>>

\* The browser is launched and the loop is entered.
StartCollecting ==
    /\ main_pc = "start"
    /\ urls_to_process # <<>>
    /\ processed_urls_results_list' = <<>>
    /\ successful_fetches' = 0
    /\ failed_fetches' = 0
    /\ main_pc' = "loop"
    /\ UNCHANGED <<args, classification, confidence_scores, classified_colors, classified_fonts,
                   role, confidence, evidence, i, j, k, returned, previous, server,
                   urls_to_process, next_url, main_computed_colors, main_typography_data,
                   final_json_output, caught>>

\* One iteration of "for current_url in urls_to_process": the try body, the
\* except branch and the finally branch.
ProcessUrl ==
    /\ main_pc = "loop"
    /\ next_url <= Len(urls_to_process)
    /\ \E fault \in Faults, colors_raise \in BOOLEAN, typography_raises \in BOOLEAN :
          LET current_url == urls_to_process[next_url]
              extracted == fault # "navigation"
              computed_colors == IF extracted /\ ~colors_raise THEN next_url
                                 ELSE main_computed_colors
              typography_data_ == IF extracted /\ ~typography_raises THEN next_url
                                  ELSE main_typography_data
              e == IF fault \in {"navigation", "assets"} THEN Message(fault)
                   ELSE IF computed_colors = Unbound THEN Message("classify")
                   ELSE IF fault = "title" THEN Message(fault)
                   ELSE None
              data_for_json == [color_classification |-> computed_colors,
                                font_classification |-> typography_data_]
          IN /\ main_computed_colors' = computed_colors
             /\ main_typography_data' = typography_data_
             /\ caught' = e
             /\ IF e # None
                THEN /\ processed_urls_results_list' =
                           Append(processed_urls_results_list, ErrorResult(current_url, e))
                     /\ failed_fetches' = failed_fetches + 1
                     /\ UNCHANGED successful_fetches
                ELSE /\ processed_urls_results_list' =
                           Append(processed_urls_results_list,
                                  SuccessResult(current_url, data_for_json))
                     /\ successful_fetches' = successful_fetches + 1
                     /\ UNCHANGED failed_fetches
    /\ next_url' = next_url + 1
    /\ UNCHANGED <<args, classification, confidence_scores, classified_colors, classified_fonts,
                   role, confidence, evidence, i, j, k, returned, previous, server,
                   urls_to_process, final_json_output, main_pc>>

\* "FINAL OUTPUT": the loop has ended.
FinalOutput ==
    /\ main_pc = "loop"
    /\ next_url > Len(urls_to_process)
    /\ final_json_output' =
          Some([collection_metadata |->
                   [total_urls_processed |-> Len(urls_to_process),
                    total_urls_successful |-> successful_fetches,
                    total_urls_failed |-> failed_fetches],
                url_analysis_results |-> processed_urls_results_list])
    /\ main_pc' = "returned"
    /\ UNCHANGED <<args, classification, confidence_scores, classified_colors, classified_fonts,
                   role, confidence, evidence, i, j, k, returned, previous, server,
                   urls_to_process, next_url, processed_urls_results_list, successful_fetches,
                   failed_fetches, main_computed_colors, main_typography_data, caught>>

\* No classifier call is modelled step by step.
ClassifierIdle ==
    /\ call = "none"
    /\ color_palette = EmptyDict
    /\ computed_colors_dict = EmptyDict
    /\ typography = EmptyDict
    /\ typography_data = EmptyDict
    /\ classification = EmptyDict
    /\ confidence_scores = EmptyDict
    /\ classified_colors = {}
    /\ classified_fonts = {}
    /\ role = None
    /\ confidence = 0
    /\ evidence = <<>>
    /\ i = 1
    /\ j = 1
    /\ k = 1
    /\ returned = FALSE
    /\ previous = <<>>

InitMain ==
    /\ ClassifierIdle
    /\ ServerIdle
    /\ urls_to_process \in UrlLists
    /\ next_url = 1
    /\ processed_urls_results_list = <<>>
    /\ successful_fetches = 0
    /\ failed_fetches = 0
    /\ main_computed_colors = Unbound
    /\ main_typography_data = Unbound
    /\ final_json_output = NoData
    /\ caught = None
    /\ main_pc = "start"

NextMain == NoUrls \/ StartCollecting \/ ProcessUrl \/ FinalOutput

SpecMain == InitMain /\ [][NextMain]_vars

\* ------------------------------------------------------------------ app.py

MaxJobs == 1          \* analysis jobs started

\* datetime.utcnow(), whatever the time is
Now == "utcnow"

\* AnalysisJob.__init__
AnalysisJob(job_urls, job_type) ==
    [urls |-> job_urls, job_type |-> job_type, status |-> "pending", progress |-> 0,
     result |-> None, error |-> None, created_at |-> Now, started_at |-> None,
     completed_at |-> None]

RECURSIVE UrlsOfLines(_)
\* The URLs of the lines of a text: the lines that are neither empty nor
\* comments, stripped, with https:// before those without protocol.
UrlsOfLines(lines) ==
    IF Len(lines) = 0 THEN <<>>
    ELSE LET url == Strip(lines[1], Whitespace)
             rest == UrlsOfLines(SubSeq(lines, 2, Len(lines)))
         IN IF url # "" /\ ~StartsWith(url, "#") THEN <<WithScheme(url)>> \o rest ELSE rest

\* The JSON bodies posted to /api/analyze; a text is the sequence of its lines.
Payloads ==
    {[url |-> " a.example "], [url |-> "http://www.a.example/"], [url |-> ""],
     [urls |-> <<"# none">>],
     [urls |-> <<"https://a.example", "", " b.example">>],
     [url |-> "", file_content |-> <<"b.example">>]}

\* The urls and the job_type analyze() derives from the posted data.
RequestedUrls(data) ==
    IF "url" \in DOMAIN data /\ data.url # ""
    THEN <<WithScheme(Strip(data.url, Whitespace))>>
    ELSE IF "urls" \in DOMAIN data /\ data.urls # <<>> THEN UrlsOfLines(data.urls)
    ELSE IF "file_content" \in DOMAIN data /\ data.file_content # <<>>
    THEN UrlsOfLines(data.file_content)
    ELSE <<>>

RequestedType(data) ==
    IF "url" \in DOMAIN data /\ data.url # "" THEN "single" ELSE "batch"

\* The job_id of the next job: a fresh one.
FreshJobId == "job-" \o ToString(Cardinality(DOMAIN analysis_jobs) + 1)

\* The thread of the job is at this position of run_deepstack_analysis.
At(job_id, pc) == job_id \in DOMAIN worker /\ worker[job_id].pc = pc

\* Only the web interface runs.
ServerFrame == UNCHANGED <<args, locals, previous, collector>>

\* POST /api/analyze, while fewer than limit jobs exist
StartJob(limit) ==
    /\ handler = <<>>
    /\ \E data \in Payloads :
          LET job_urls == RequestedUrls(data)
              job_type == RequestedType(data)
              job_id == FreshJobId
          IN IF job_urls = <<>>
             THEN /\ response' = [handler |-> "analyze", job_id |-> None, code |-> 400,
                                  body |-> "No valid URLs provided"]
                  /\ UNCHANGED <<analysis_jobs, worker>>
             ELSE /\ Cardinality(DOMAIN analysis_jobs) < limit
                  /\ analysis_jobs' =
                        [id \in DOMAIN analysis_jobs \cup {job_id} |->
                            IF id = job_id THEN AnalysisJob(job_urls, job_type)
                            ELSE analysis_jobs[id]]
                  /\ worker' =
                        [id \in DOMAIN worker \cup {job_id} |->
                            IF id = job_id
                            THEN [pc |-> "start", returncode |-> 0, exception |-> None,
                                  loaded |-> NoData]
                            ELSE worker[id]]
                  /\ response' = [handler |-> "analyze", job_id |-> job_id, code |-> 200,
                                  body |-> "started"]
    /\ UNCHANGED <<handler, files>>
    /\ ServerFrame

Analyze == StartJob(MaxJobs)

\* Faulty variant of NotCompleted: only a pending job is refused.
NotCompletedOnlyPending(job) == job.status = "pending"

\* "if job.status != 'completed'"
NotCompleted(job) == job.status # "completed"

\* "if not job.result": None and the empty JSON object are false.
NoResult(job) == job.result \in {None, "{}"}

RequestedIds == {"job-1", "job-2", "job-0"}

\* GET /api/result/<job_id>, up to the test of the job's status.
GetResult ==
    /\ handler = <<>>
    /\ \E job_id \in RequestedIds :
          IF job_id \notin DOMAIN analysis_jobs
          THEN /\ response' = [handler |-> "get_result", job_id |-> job_id, code |-> 404,
                               body |-> "Job not found"]
               /\ UNCHANGED handler
          ELSE IF NotCompleted(analysis_jobs[job_id])
          THEN /\ response' = [handler |-> "get_result", job_id |-> job_id, code |-> 400,
                               body |-> "Job not completed yet"]
               /\ UNCHANGED handler
          ELSE /\ handler' = <<job_id>>
               /\ UNCHANGED response
    /\ UNCHANGED <<analysis_jobs, worker, files>>
    /\ ServerFrame

\* GET /api/result/<job_id>, from the test of the job's result on.
ReturnResult ==
    /\ handler # <<>>
    /\ LET job_id == handler[1]
           job == analysis_jobs[job_id]
       IN response' =
             IF NoResult(job)
             THEN [handler |-> "get_result", job_id |-> job_id, code |-> 404,
                   body |-> "No result available"]
             ELSE [handler |-> "get_result", job_id |-> job_id, code |-> 200,
                   body |-> job.result]
    /\ handler' = <<>>
    /\ UNCHANGED <<analysis_jobs, worker, files>>
    /\ ServerFrame

\* GET /api/status/<job_id>: job.to_dict()
to_dict(job_id) ==
    LET job == analysis_jobs[job_id]
    IN [job_id |-> job_id, urls |-> job.urls, job_type |-> job.job_type,
        status |-> job.status, progress |-> job.progress, result |-> job.result,
        error |-> job.error, created_at |-> job.created_at,
        started_at |-> job.started_at, completed_at |-> job.completed_at]

GetStatus ==
    /\ handler = <<>>
    /\ \E job_id \in RequestedIds :
          response' =
             IF job_id \notin DOMAIN analysis_jobs
             THEN [handler |-> "get_status", job_id |-> job_id, code |-> 404,
                   body |-> "Job not found"]
             ELSE [handler |-> "get_status", job_id |-> job_id, code |-> 200,
                   body |-> to_dict(job_id)]
    /\ UNCHANGED <<analysis_jobs, worker, handler, files>>
    /\ ServerFrame

\* open(path, 'w') and the write of the content
Written(fs, path, content) ==
    [p \in DOMAIN fs \cup {path} |-> IF p = path THEN content ELSE fs[p]]

\* "if os.path.exists(path): os.unlink(path)"
Unlinked(fs, path) == [p \in DOMAIN fs \ {path} |-> fs[p]]

urls_file == "urls_to_analyze.txt"

RECURSIVE ReplaceFrom(_, _, _, _)
\* s[n-1:].replace(old, new), for a non-empty old
ReplaceFrom(s, n, old, new) ==
    IF n + Len(old) - 1 > Len(s) THEN SubSeq(s, n, Len(s))
    ELSE IF SubSeq(s, n, n + Len(old) - 1) = old
    THEN new \o ReplaceFrom(s, n + Len(old), old, new)
    ELSE CharAt(s, n) \o ReplaceFrom(s, n + 1, old, new)

\* s.replace(old, new)
Replace(s, old, new) == ReplaceFrom(s, 1, old, new)

\* urlparse(url).netloc of a URL with a scheme
Netloc(url) ==
    LET start == (CHOOSE n \in 1..Len(url) :
                     /\ SubSeq(url, n, n + 2) = "://"
                     /\ \A m \in 1..(n - 1) : SubSeq(url, m, m + 2) # "://") + 3
    IN SubSeq(url, start, SkipChars(url, start, Chars(url) \ {"/", "?", "#"}) - 1)

\* "domain = parsed_url.netloc.replace('www.', '').replace(':', '_')"
domain(netloc) == Replace(Replace(netloc, "www.", ""), ":", "_")

\* The output file the job looks for (the netloc is bound first, so that it is
\* computed once).
output_file(job) ==
    IF job.job_type = "single" /\ Len(job.urls) = 1
    THEN CHOOSE path \in {"output/deepstack_output-" \o domain(netloc) \o ".json" :
                             netloc \in {Netloc(job.urls[1])}} : TRUE
    ELSE "output/deepstack_output.json"

\* The thread of the job assigns a field of the job and moves on.
Assign(job_id, field, value, pc) ==
    /\ analysis_jobs' = [analysis_jobs EXCEPT ![job_id][field] = value]
    /\ worker' = [worker EXCEPT ![job_id].pc = pc]
    /\ UNCHANGED <<handler, response, files>>
    /\ ServerFrame

\* The thread of the job moves on, with this return code and this exception.
Goto(job_id, pc, returncode, exception) ==
    /\ worker' = [worker EXCEPT ![job_id].pc = pc,
                                ![job_id].returncode = returncode,
                                ![job_id].exception = exception]
    /\ UNCHANGED <<analysis_jobs, handler, response, files>>
    /\ ServerFrame

\* "job.status = 'running'"
SetRunning == \E job_id \in DOMAIN worker :
    At(job_id, "start") /\ Assign(job_id, "status", "running", "started_at")

\* "job.started_at = datetime.utcnow()"
SetStartedAt == \E job_id \in DOMAIN worker :
    At(job_id, "started_at") /\ Assign(job_id, "started_at", Now, "progress_10")

\* "job.progress = 10"
SetProgress10 == \E job_id \in DOMAIN worker :
    At(job_id, "progress_10") /\ Assign(job_id, "progress", 10, "prepare")

\* The job is a single-URL job.
IsSingle(job) == job.job_type = "single" /\ Len(job.urls) = 1

\* Where an exception or a return takes the thread: to pc for a single URL,
\* through the finally clause of the batch branch for a batch.
Leaving(job, pc) == IF IsSingle(job) THEN pc ELSE "cleanup_" \o pc

\* From the change of directory to the progress before the collector runs:
\* 50 for a single URL, 30 for a batch after its URLs are written to the
\* temporary file and copied to urls_to_analyze.txt.
Prepare == \E job_id \in DOMAIN worker :
    /\ At(job_id, "prepare")
    /\ LET job == analysis_jobs[job_id]
       IN /\ analysis_jobs' =
                [analysis_jobs EXCEPT ![job_id].progress = IF IsSingle(job) THEN 50 ELSE 30]
          /\ files' = IF IsSingle(job) THEN files ELSE Written(files, urls_file, job.urls)
    /\ worker' = [worker EXCEPT ![job_id].pc = "run"]
    /\ UNCHANGED <<handler, response>>
    /\ ServerFrame

\* The preparation raises (os.chdir, the temporary file).
PrepareRaises == \E job_id \in DOMAIN worker :
    /\ At(job_id, "prepare")
    /\ Goto(job_id, "except", 0, "[Errno 13] Permission denied")

\* subprocess.Popen / subprocess.run starts the collector, or cannot.
StartCollector == \E job_id \in DOMAIN worker :
    /\ At(job_id, "run")
    /\ \/ Goto(job_id, "collector_load", 0, None)
       \/ Goto(job_id, Leaving(analysis_jobs[job_id], "except"), 0, "[Errno 2] No such file")

\* The collector process finds its URLs: the --url argument, or the lines of
\* urls_to_analyze.txt, which it creates if it is missing. Without URLs it
\* exits at once.
LoadUrls == \E job_id \in DOMAIN worker :
    /\ At(job_id, "collector_load")
    /\ LET job == analysis_jobs[job_id]
           missing == ~IsSingle(job) /\ urls_file \notin DOMAIN files
           urls == IF IsSingle(job) THEN <<WithScheme(job.urls[1])>>
                   ELSE IF missing THEN <<>>
                   ELSE load_urls_from_file(files[urls_file])
       IN /\ worker' = [worker EXCEPT
                          ![job_id].loaded = Some(urls),
                          ![job_id].pc = IF urls # <<>> THEN "collector_run"
                                         ELSE IF IsSingle(job) THEN "check"
                                         ELSE "progress_80"]
          /\ files' = IF missing
                      THEN Written(files, urls_file, <<"# Add URLs here, one per line">>)
                      ELSE files
    /\ UNCHANGED <<analysis_jobs, handler, response>>
    /\ ServerFrame

RECURSIVE JoinUrls(_)
\* ", ".join of the URLs, each in quotes
JoinUrls(urls) ==
    IF Len(urls) = 0 THEN ""
    ELSE IF Len(urls) = 1 THEN "\"" \o urls[1] \o "\""
    ELSE "\"" \o urls[1] \o "\", " \o JoinUrls(SubSeq(urls, 2, Len(urls)))

\* The text of the report the collector writes about the URLs.
Report(urls) == "{\"url_analysis_results\": [" \o JoinUrls(urls) \o "]}"

\* What the output file of a run on the URLs can hold.
OutputFiles(urls) == {"null", "{}", Report(urls)}

\* json.load of the output file
json_load(content) == IF content = "null" THEN None ELSE content

\* The collector process collects: it writes its output file and exits with
\* 0, it exits with 0 after the write failed, it exits with 1, or the
\* timeout of the job's thread expires first.
RunCollector == \E job_id \in DOMAIN worker :
    /\ At(job_id, "collector_run")
    /\ LET job == analysis_jobs[job_id]
           after == IF IsSingle(job) THEN "check" ELSE "progress_80"
       IN \E outcome \in {"written", "not written", "exit 1", "timeout"} :
             /\ worker' = [worker EXCEPT
                             ![job_id].pc = IF outcome = "timeout"
                                            THEN Leaving(job, "timeout") ELSE after,
                             ![job_id].returncode = IF outcome = "exit 1" THEN 1 ELSE 0]
             /\ IF outcome = "written"
                THEN \E content \in OutputFiles(worker[job_id].loaded[1]) :
                        files' = Written(files, output_file(job), content)
                ELSE UNCHANGED files
    /\ UNCHANGED <<analysis_jobs, handler, response>>
    /\ ServerFrame

\* "job.progress = 80" of a batch
SetProgress80 == \E job_id \in DOMAIN worker :
    At(job_id, "progress_80") /\ Assign(job_id, "progress", 80, "check")

\* The collector failed: "job.error = f'Script failed: ...'"
ScriptFailed == \E job_id \in DOMAIN worker :
    /\ At(job_id, "check")
    /\ worker[job_id].returncode # 0
    /\ Assign(job_id, "error", "Script failed: Traceback", "status_error_return")

\* The collector succeeded and there is no output file.
OutputMissing == \E job_id \in DOMAIN worker :
    /\ At(job_id, "check")
    /\ worker[job_id].returncode = 0
    /\ output_file(analysis_jobs[job_id]) \notin DOMAIN files
    /\ Assign(job_id, "error", "Output file not found", "status_error_return")

\* The collector succeeded: "job.result = json.load(f)"
LoadResult == \E job_id \in DOMAIN worker :
    /\ At(job_id, "check")
    /\ worker[job_id].returncode = 0
    /\ output_file(analysis_jobs[job_id]) \in DOMAIN files
    /\ Assign(job_id, "result", json_load(files[output_file(analysis_jobs[job_id])]),
              IF IsSingle(analysis_jobs[job_id]) THEN "progress_100" ELSE "cleanup_progress_100")

\* The collector succeeded and its output file is no JSON: json.load raises.
LoadRaises == \E job_id \in DOMAIN worker :
    /\ At(job_id, "check")
    /\ worker[job_id].returncode = 0
    /\ output_file(analysis_jobs[job_id]) \in DOMAIN files
    /\ Goto(job_id, Leaving(analysis_jobs[job_id], "except"), 0,
            "Expecting value: line 1 column 1 (char 0)")

\* The finally clause of the batch branch: the temporary file and
\* urls_to_analyze.txt are removed; the thread goes on where it was going.
CleanUp == \E job_id \in DOMAIN worker :
    /\ \E pc \in {"progress_100", "finally", "timeout", "except"} :
          /\ At(job_id, "cleanup_" \o pc)
          /\ worker' = [worker EXCEPT ![job_id].pc = pc]
    /\ files' = Unlinked(files, urls_file)
    /\ UNCHANGED <<analysis_jobs, handler, response>>
    /\ ServerFrame

\* "job.progress = 100"
SetProgress100 == \E job_id \in DOMAIN worker :
    At(job_id, "progress_100") /\ Assign(job_id, "progress", 100, "status_completed")

\* "job.status = 'completed'"
SetCompleted == \E job_id \in DOMAIN worker :
    At(job_id, "status_completed") /\ Assign(job_id, "status", "completed", "completed_at")

\* "job.completed_at = datetime.utcnow()" of a completed job, and the end of
\* the thread.
SetCompletedAt == \E job_id \in DOMAIN worker :
    At(job_id, "completed_at") /\ Assign(job_id, "completed_at", Now, "done")

\* Faulty variant of HandleTimeout: the status of the job is not set.
HandleTimeoutKeepingStatus == \E job_id \in DOMAIN worker :
    At(job_id, "timeout") /\ Assign(job_id, "error", "Analysis timed out", "done")

\* "except subprocess.TimeoutExpired: job.error = 'Analysis timed out'"
HandleTimeout == \E job_id \in DOMAIN worker :
    At(job_id, "timeout") /\ Assign(job_id, "error", "Analysis timed out", "status_error")

\* "except Exception as e: job.error = str(e)"
HandleException == \E job_id \in DOMAIN worker :
    At(job_id, "except") /\ Assign(job_id, "error", worker[job_id].exception, "status_error")

\* "job.status = 'error'", in an except clause or before a return
SetStatusError == \E job_id \in DOMAIN worker :
    \/ At(job_id, "status_error") /\ Assign(job_id, "status", "error", "finally")
    \/ /\ At(job_id, "status_error_return")
       /\ Assign(job_id, "status", "error", Leaving(analysis_jobs[job_id], "finally"))

\* "finally: if job.status != 'completed': job.completed_at = ...", and the
\* end of the thread.
Finally == \E job_id \in DOMAIN worker :
    /\ At(job_id, "finally")
    /\ Assign(job_id, "completed_at",
              IF analysis_jobs[job_id].status # "completed" THEN Now
              ELSE analysis_jobs[job_id].completed_at,
              "done")

\* A step of the thread of a job, or of the collector process it waits for.
WorkerNext ==
    \/ SetRunning \/ SetStartedAt \/ SetProgress10 \/ Prepare \/ PrepareRaises
    \/ StartCollector \/ LoadUrls \/ RunCollector \/ SetProgress80
    \/ ScriptFailed \/ OutputMissing \/ LoadResult \/ LoadRaises \/ CleanUp
    \/ SetProgress100 \/ SetCompleted \/ SetCompletedAt
    \/ HandleTimeout \/ HandleException \/ SetStatusError \/ Finally

InitApp ==
    /\ ClassifierIdle
    /\ CollectorIdle
    /\ ServerIdle

NextApp == Analyze \/ GetResult \/ ReturnResult \/ WorkerNext

SpecApp == InitApp /\ [][NextApp]_vars

\* The job ids analyze() has given out when MaxJobs jobs exist.
JobIds == {"job-" \o ToString(n) : n \in 1..MaxJobs}

\* A step of the thread of this job, or of its collector process.
Thread(job_id) ==
    /\ job_id \in DOMAIN worker
    /\ WorkerNext
    /\ worker'[job_id] # worker[job_id]

\* The web interface with threads that the interpreter keeps scheduling and
\* collector processes that exit unless their timeout expires first.
SpecAppFair == SpecApp /\ \A job_id \in JobIds : WF_vars(Thread(job_id))

\* Jobs that run side by side: one more than MaxJobs can be started.
AnalyzeConcurrently == StartJob(MaxJobs + 1)

NextConcurrent == AnalyzeConcurrently \/ WorkerNext

SpecConcurrent == InitApp /\ [][NextConcurrent]_vars

\* The jobs and the polls of their status.
NextStatus == Analyze \/ GetStatus \/ WorkerNext

SpecStatus == InitApp /\ [][NextStatus]_vars

\* ------------------------------------------------------------------ repeated calls

MaxCalls == 2         \* calls of a function with the same arguments

\* The locals a call of the running function starts with.
InitialClassification ==
    IF call = "classify_colors"
    THEN [primary |-> <<>>, accents |-> <<>>, neutrals |-> <<>>,
          utility |-> [success |-> None, error |-> None, warning |-> None, info |-> None]]
    ELSE [primary_heading |-> None, body_text |-> None,
          accent_display |-> <<>>, monospace_code |-> None]

\* Faulty variant of CallAgain: the sets of classified values outlive the call.
CallAgainKeepingClassified ==
    /\ returned
    /\ Len(previous) < MaxCalls - 1
    /\ previous' = Append(previous, [classification |-> classification,
                                     confidence_scores |-> confidence_scores])
    /\ classification' = InitialClassification
    /\ confidence_scores' = EmptyDict
    /\ role' = None
    /\ confidence' = 0
    /\ evidence' = <<>>
    /\ i' = 1
    /\ j' = 1
    /\ k' = 1
    /\ returned' = FALSE
    /\ UNCHANGED <<args, collector, server, classified_colors, classified_fonts>>

\* The function that returned is called again with the same arguments: the
\* result of the call that returned is kept aside, the new call starts with
\* fresh locals.
CallAgain ==
    /\ returned
    /\ Len(previous) < MaxCalls - 1
    /\ previous' = Append(previous, [classification |-> classification,
                                     confidence_scores |-> confidence_scores])
    /\ classification' = InitialClassification
    /\ confidence_scores' = EmptyDict
    /\ classified_colors' = {}
    /\ classified_fonts' = {}
    /\ role' = None
    /\ confidence' = 0
    /\ evidence' = <<>>
    /\ i' = 1
    /\ j' = 1
    /\ k' = 1
    /\ returned' = FALSE
    /\ UNCHANGED <<args, collector, server>>

InitTwice ==
    /\ \/ \E input \in CrossInputs : StartColors(input[1], input[2])
       \/ \E input \in HierarchyInputs : StartFonts(input[1], input[2])
    /\ previous = <<>>
    /\ CollectorIdle
    /\ ServerIdle
    /\ confidence_scores = EmptyDict
    /\ classified_colors = {}
    /\ classified_fonts = {}
    /\ role = None
    /\ confidence = 0
    /\ evidence = <<>>
    /\ i = 1
    /\ j = 1
    /\ k = 1
    /\ returned = FALSE

NextTwice == Pass1Step \/ Pass2Step \/ LimitColors \/ FontStep \/ FinishFonts \/ CallAgain

SpecTwice == InitTwice /\ [][NextTwice]_vars

\* ------------------------------------------------------------------ colors of a page

MaxSelectors == 2     \* elements of a page whose computed colors are read

HexDigits == "0123456789abcdef"

DigitValue == [c \in DigitChars |-> (CHOOSE n \in 1..Len(Digits) : CharAt(Digits, n) = c) - 1]

RECURSIVE ToInt(_)
\* int(s) of a string of decimal digits
ToInt(s) ==
    IF Len(s) = 0 THEN 0
    ELSE 10 * ToInt(SubSeq(s, 1, Len(s) - 1)) + DigitValue[CharAt(s, Len(s))]

RECURSIVE HexOf(_)
\* format(n, 'x')
HexOf(n) ==
    IF n < 16 THEN CharAt(HexDigits, n + 1)
    ELSE HexOf(n \div 16) \o CharAt(HexDigits, (n % 16) + 1)

\* f"{n:02x}"
Hex02(n) == IF n < 16 THEN "0" \o HexOf(n) ELSE HexOf(n)

\* The groups of re.match(r'rgba?\((\d+),\s*(\d+),\s*(\d+)(?:,\s*[\d.]+)?\)', s),
\* or the empty tuple if the string does not match.
RgbMatch(s) ==
    LET spaces == Chars(Whitespace)
        r1 == IF StartsWith(s, "rgba(") THEN 6 ELSE IF StartsWith(s, "rgb(") THEN 5 ELSE 0
        r2 == SkipChars(s, r1, DigitChars)
        g1 == SkipChars(s, r2 + 1, spaces)
        g2 == SkipChars(s, g1, DigitChars)
        b1 == SkipChars(s, g2 + 1, spaces)
        b2 == SkipChars(s, b1, DigitChars)
        a1 == SkipChars(s, b2 + 1, spaces)
        a2 == SkipChars(s, a1, DigitChars \cup {"."})
        Is(n, c) == n <= Len(s) /\ CharAt(s, n) = c
    IN IF /\ r1 > 0
          /\ r2 > r1 /\ Is(r2, ",")
          /\ g2 > g1 /\ Is(g2, ",")
          /\ b2 > b1
          /\ \/ Is(b2, ")")
             \/ Is(b2, ",") /\ a2 > a1 /\ Is(a2, ")")
       THEN <<SubSeq(s, r1, r2 - 1), SubSeq(s, g1, g2 - 1), SubSeq(s, b1, b2 - 1)>>
       ELSE <<>>

\* "Convert RGB/RGBA string to hex color."
extract_color_from_rgb(rgb_string) ==
    IF rgb_string = "" \/ rgb_string = "transparent" THEN None
    ELSE LET match == RgbMatch(rgb_string)
         IN IF match # <<>>
            THEN "#" \o Hex02(ToInt(match[1])) \o Hex02(ToInt(match[2]))
                     \o Hex02(ToInt(match[3]))
            ELSE rgb_string

named_colors == {"red", "blue", "green", "yellow", "black", "white",
                 "gray", "grey", "purple", "orange", "pink", "brown"}

\* "Check if a string value represents a color."
is_color_value(value) ==
    LET v == Lower(Strip(value, Whitespace))
    IN /\ value # ""
       /\ \/ /\ StartsWith(v, "#")
             /\ Len(v) - 1 \in 3..8
             /\ \A n \in 2..Len(v) : CharAt(v, n) \in Chars(HexDigits)
          \/ StartsWith(v, "rgb(") \/ StartsWith(v, "rgba(")
          \/ StartsWith(v, "hsl(") \/ StartsWith(v, "hsla(")
          \/ v \in named_colors

\* "Filter for color-related variables"
ColorVariables(css_variables) ==
    SelectSeq(css_variables, LAMBDA entry : is_color_value(entry[2]))

\* The dict "processed" of a selector: the normalized values of its styles.
Processed(styles) ==
    LET normalized == [n \in 1..Len(styles) |->
                          <<styles[n][1],
                            IF /\ styles[n][2] # ""
                               /\ styles[n][2] # "rgba(0, 0, 0, 0)"
                               /\ styles[n][2] # "transparent"
                            THEN extract_color_from_rgb(styles[n][2])
                            ELSE None>>]
    IN SelectSeq(normalized, LAMBDA entry : entry[2] # None /\ entry[2] # "")

\* color_palette["computed_colors"]: the selectors with a normalized value.
NormalizedColors(computed_colors) ==
    SelectSeq([n \in 1..Len(computed_colors) |->
                  <<computed_colors[n][1], Processed(computed_colors[n][2])>>],
              LAMBDA entry : entry[2] # <<>>)

RECURSIVE AllColors(_, _)
\* The list all_colors, from the n-th selector on.
AllColors(computed_colors, n) ==
    IF n > Len(computed_colors) THEN <<>>
    ELSE LET processed == Processed(computed_colors[n][2])
         IN [m \in 1..Len(processed) |-> processed[m][2]] \o AllColors(computed_colors, n + 1)

\* all_colors.count(color)
CountOf(all_colors, color) == Cardinality({n \in 1..Len(all_colors) : all_colors[n] = color})

\* "Count color frequency": the items of color_freq, in the order of insertion.
ColorFreq(all_colors) ==
    LET first == SelectSeq([n \in 1..Len(all_colors) |-> n],
                           LAMBDA n : \A m \in 1..(n - 1) : all_colors[m] # all_colors[n])
    IN [n \in 1..Len(first) |-> <<all_colors[first[n]], CountOf(all_colors, all_colors[first[n]])>>]

RECURSIVE SortedColors(_)
\* sorted(color_freq.items(), key=lambda x: x[1], reverse=True): the sort is
\* stable, items of the same count keep their order.
SortedColors(items) ==
    IF Len(items) = 0 THEN <<>>
    ELSE LET n == CHOOSE a \in 1..Len(items) :
                     /\ \A b \in 1..Len(items) : items[b][2] <= items[a][2]
                     /\ \A b \in 1..(a - 1) : items[b][2] < items[a][2]
         IN <<items[n]>> \o SortedColors(SubSeq(items, 1, n - 1)
                                            \o SubSeq(items, n + 1, Len(items)))

\* dict(items) of a list of (color, count) pairs with distinct colors
FrequencyTable(items) ==
    [color \in {items[n][1] : n \in 1..Len(items)} |->
        (CHOOSE n \in 1..Len(items) : items[n][1] = color)]

\* The color_palette main has built when it calls classify_colors, from the
\* CSS variables and the computed colors the page scripts returned.
PagePalette(css_variables, computed_colors) ==
    LET sorted_colors == SortedColors(ColorFreq(AllColors(computed_colors, 1)))
        top == Truncate(sorted_colors, 15)
    IN [css_custom_properties |-> ColorVariables(css_variables),
        computed_colors |-> NormalizedColors(computed_colors),
        primary_colors |-> [n \in 1..Min(10, Len(sorted_colors)) |-> sorted_colors[n][1]],
        color_frequency |-> [color \in DOMAIN FrequencyTable(top) |->
                                top[FrequencyTable(top)[color]][2]]]

\* The values getComputedStyle gives for a color.
ComputedValues == {"rgb(26, 115, 232)", "rgba(26, 115, 232, 0.5)", "rgb(255, 255, 255)",
                   "rgba(0, 0, 0, 0)", "oklch(0.7 0.1 200)"}

\* What the script of the computed colors returns for an element.
Styles(color, backgroundColor, borderColor) ==
    << <<"color", color>>, <<"backgroundColor", backgroundColor>>,
       <<"borderColor", borderColor>> >>

PageStyles ==
    {Styles("rgb(26, 115, 232)", "rgba(0, 0, 0, 0)", "rgb(26, 115, 232)"),
     Styles("rgb(26, 115, 232)", "rgb(26, 115, 232)", "rgb(26, 115, 232)"),
     Styles("rgb(255, 255, 255)", "rgba(26, 115, 232, 0.5)", "rgb(255, 255, 255)"),
     Styles("oklch(0.7 0.1 200)", "rgba(0, 0, 0, 0)", "oklch(0.7 0.1 200)"),
     Styles("oklch(0.7 0.1 200)", "rgb(255, 255, 255)", "rgb(26, 115, 232)")}

\* Selectors of the script, in its order.
PageSelectors == <<"h1", "a", "button", "footer">>

\* The results of the script for pages that have up to MaxSelectors of the elements.
PageColors ==
    UNION {UNION {{[n \in 1..Len(found) |-> <<found[n], styles[n]>>] :
                      styles \in [1..Len(found) -> PageStyles]} :
                  found \in {SelectSeq(PageSelectors, LAMBDA sel : sel \in chosen) :
                                chosen \in {c \in SUBSET Contents(PageSelectors) :
                                               Cardinality(c) = size}}} :
           size \in 0..MaxSelectors}

\* The results of the script of the CSS variables.
PageVariables ==
    {<<>>,
     << <<"--spacing", "16px">>, <<"--brand", "#1A73E8">>, <<"--success", "Green">> >>,
     << <<"--link-accent", "rgb(26, 115, 232)">>, <<"--text-white", "White">> >>}

\* The call of classify_colors by main, for a page whose scripts ran.
InitPage ==
    /\ \E css_variables \in PageVariables, computed_colors \in PageColors :
          StartColors(PagePalette(css_variables, computed_colors), computed_colors)
    /\ previous = <<>>
    /\ CollectorIdle
    /\ ServerIdle
    /\ confidence_scores = EmptyDict
    /\ classified_colors = {}
    /\ classified_fonts = {}
    /\ role = None
    /\ confidence = 0
    /\ evidence = <<>>
    /\ i = 1
    /\ j = 1
    /\ k = 1
    /\ returned = FALSE

NextPage == Pass1Step \/ Pass2Step \/ LimitColors

SpecPage == InitPage /\ [][NextPage]_vars

\* ------------------------------------------------------------------ properties

ColorsReturned == call = "classify_colors" /\ returned
FontsReturned == call = "classify_fonts" /\ returned

NoDuplicates(list) == \A a, b \in 1..Len(list) : a # b => list[a] # list[b]

UtilitySlots == <<"success", "error", "warning", "info">>

\* The colors of the four utility slots that are filled, slot by slot.
UtilityColors(cls) ==
    SelectSeq([n \in 1..Len(UtilitySlots) |-> cls.utility[UtilitySlots[n]]],
              LAMBDA value : value # None)

\* Every color the classification holds, bucket by bucket and slot by slot.
PlacedColors(cls) == cls.primary \o cls.accents \o cls.neutrals \o UtilityColors(cls)

\* The single-value slots of the font classification that are filled.
SlotFonts(cls) ==
    SelectSeq(<<cls.primary_heading, cls.body_text, cls.monospace_code>>,
              LAMBDA value : value # None)

\* The last CSS variable Pass 1 processed, while no Pass 2 step has run.
AfterVariable == call = "classify_colors" /\ i > 1 /\ j = 1 /\ ~returned
LastName == css_vars[i - 1][1]
LastValue == css_vars[i - 1][2]

\* The last (selector, prop, color) Pass 2 processed.
AfterItem == call = "classify_colors" /\ j > 1 /\ ~returned
LastItem == computed_items[j - 1]

\* C1: no color value occurs more than once in the returned classification,
\* neither in two of primary, accents, neutrals and the utility slots nor twice
\* in one bucket.
C1_NoColorTwice == ColorsReturned => NoDuplicates(PlacedColors(classification))

\* C2: no cleaned font name fills more than one of primary_heading, body_text
\* and monospace_code in the returned classification.
C2_NoFontInTwoSlots == FontsReturned => NoDuplicates(SlotFonts(classification))

\* C3: the returned classifications hold at most 2 primary colors, 8 accents,
\* 5 neutrals and 3 accent fonts.
C3_Caps ==
    /\ ColorsReturned => /\ Len(classification.primary) <= 2
                         /\ Len(classification.accents) <= 8
                         /\ Len(classification.neutrals) <= 5
    /\ FontsReturned => Len(classification.accent_display) <= 3

\* A palette with more candidates than every cap of the colors allows has been
\* classified and cut.
C3_Witness ==
    /\ ColorsReturned
    /\ Len(classification.primary) = 2
    /\ Len(classification.accents) = 8
    /\ Len(classification.neutrals) = 5
    /\ Cardinality(classified_colors) >= 18

\* The pattern groups of Pass 1 in their priority order, with the role and the
\* confidence (in hundredths) of each.
Ladder == <<primary_patterns, accent_patterns, neutral_patterns, success_patterns,
            error_patterns, warning_patterns, info_patterns, color_name_patterns>>
LadderRole == <<"primary", "accent", "neutral", "utility_success", "utility_error",
                "utility_warning", "utility_info", "accent">>
LadderConfidence == <<95, 90, 95, 90, 90, 90, 85, 85>>
LadderBucket == <<"primary", "accents", "neutrals", None, None, None, None, "accents">>
LadderSlot == <<None, None, None, "success", "error", "warning", "info", None>>

\* The first group with a pattern that occurs in the lower-cased name; 0 if none.
FirstGroup(name) ==
    LET matching == {n \in 1..Len(Ladder) : AnyPattern(Ladder[n], Lower(name))}
    IN IF matching = {} THEN 0 ELSE CHOOSE n \in matching : \A m \in matching : n <= m

\* A Pass 1 step: the variable at position i is processed.
VariableStep == call = "classify_colors" /\ i' = i + 1

\* A Pass 2 step: the (selector, prop, color) at position j is processed.
ItemStep == call = "classify_colors" /\ j' = j + 1

\* C4: in Pass 1 a variable is handled by the first group, in priority order,
\* with a pattern in its lower-cased name: it gets that group's role and
\* confidence, and no bucket, slot or record of another group changes.
C4_FirstGroupOnly ==
    [][VariableStep =>
        LET g == FirstGroup(css_vars[i][1])
            value == css_vars[i][2]
        IN /\ g = 0 => /\ role' = None
                       /\ classification' = classification
                       /\ confidence_scores' = confidence_scores
           /\ g \in 1..7 => role' = LadderRole[g] /\ confidence' = LadderConfidence[g]
           /\ g = 8 => role' \in {LadderRole[g], None}
           /\ \A bucket \in {"primary", "accents", "neutrals"} :
                 (g = 0 \/ bucket # LadderBucket[g])
                    => classification'[bucket] = classification[bucket]
           /\ \A slot \in UtilityGroups :
                 (g = 0 \/ slot # LadderSlot[g])
                    => classification'.utility[slot] = classification.utility[slot]
           /\ \A v \in DOMAIN confidence_scores' \ DOMAIN confidence_scores :
                 v = value /\ g # 0 /\ confidence_scores'[v].role = LadderRole[g]
    ]_vars

\* A variable whose name holds a primary and an accent pattern has been
\* classified primary, and the accents are untouched.
C4_Witness ==
    /\ AfterVariable
    /\ LastName = "--Brand-Accent"
    /\ role = "primary" /\ confidence = 95
    /\ classification.primary = <<LastValue>>
    /\ classification.accents = <<>>

\* C5: once a color value has a confidence record, no later step of
\* classify_colors changes the record's role, confidence or evidence.
C5_RecordsKept ==
    [][call = "classify_colors" =>
        \A v \in DOMAIN confidence_scores :
            v \in DOMAIN confidence_scores' /\ confidence_scores'[v] = confidence_scores[v]
    ]_vars

\* A later variable gave a recorded value another role, and the record kept
\* the role of the first classification.
C5_Witness ==
    /\ AfterVariable
    /\ role # None
    /\ confidence_scores[LastValue].role # role

\* C6: every color in a bucket or utility slot is a key of the color confidence
\* map, and every font in a slot or in accent_display is a key of the font
\* confidence map.
C6_PlacedValuesRecorded ==
    /\ call = "classify_colors"
          => Contents(PlacedColors(classification)) \subseteq DOMAIN confidence_scores
    /\ call = "classify_fonts"
          => Contents(SlotFonts(classification) \o classification.accent_display)
                \subseteq DOMAIN confidence_scores

\* A returned color classification with a primary color and an info color.
C6_Witness ==
    /\ ColorsReturned
    /\ Len(classification.primary) > 0
    /\ classification.utility.info # None

\* The record of the value was created by Pass 1.
FromVariable(v) ==
    /\ v \in DOMAIN confidence_scores
    /\ Contains(confidence_scores[v].evidence[1], "CSS variable name: ")

\* C7: Pass 2 runs only after Pass 1 has processed every variable, and a color
\* that Pass 1 classified is never added to a bucket by Pass 2.
C7_Pass1First ==
    [][/\ VariableStep => j = 1 /\ j' = 1
       /\ ItemStep => /\ i > Len(css_vars) /\ i' = i
                      /\ FromVariable(computed_items[j][3])
                            => /\ classification' = classification
                               /\ confidence_scores' = confidence_scores
    ]_vars

\* Pass 2 met a color of Pass 1 under an important selector with a count of at
\* least 5, and it is no primary color.
C7_Witness ==
    /\ AfterItem
    /\ LastItem[1] \in {"h1", "h2", "button", "[class*=\"primary\"]", ".hero"}
    /\ Get(frequency, LastItem[3], 0) >= 5
    /\ FromVariable(LastItem[3])
    /\ LastItem[3] \notin Contents(classification.primary)

\* The step classifies the value: it creates the value's record, with this role
\* and confidence, and appends the value to this bucket.
ClassifiedAs(v, r, c, bucket) ==
    /\ v \notin DOMAIN confidence_scores
    /\ v \in DOMAIN confidence_scores'
    /\ confidence_scores'[v].role = r
    /\ confidence_scores'[v].confidence = c
    /\ classification' = [classification EXCEPT ![bucket] = Append(@, v)]

\* After the step the value has a record with this role and confidence and is
\* in this bucket.
HasClass(v, r, c, bucket) ==
    /\ v \in DOMAIN confidence_scores'
    /\ confidence_scores'[v].role = r
    /\ confidence_scores'[v].confidence = c
    /\ v \in Contents(classification'[bucket])

HighUse(s, f) == s \in {"h1", "h2", "button", "[class*=\"primary\"]", ".hero"} /\ f >= 5
ModerateUse(s, f) == s \in {"[class*=\"secondary\"]", "a"} /\ 2 <= f /\ f < 10

\* The rule of Pass 2 for the color v met under selector s with count f.
Pass2Rule(s, v, f) ==
    /\ ClassifiedAs(v, "primary", 75, "primary") <=> HighUse(s, f)
    /\ ~HighUse(s, f) => (ClassifiedAs(v, "accent", 65, "accents") <=> ModerateUse(s, f))
    /\ ~HighUse(s, f) /\ ~ModerateUse(s, f) => /\ classification' = classification
                                               /\ confidence_scores' = confidence_scores

\* C8 as stated: a color that Pass 1 did not classify and that Pass 2 meets is
\* primary with confidence 0.75 if the selector is important and the count at
\* least 5, else accent with confidence 0.65 if the selector is an accent
\* selector and the count in [2,10), and the occurrence changes nothing in
\* every other case; an occurrence classifies only in these cases.
C8_RuleForAllPass2Occurrences ==
    [][ItemStep =>
        LET item == computed_items[j]
            s == item[1]
            v == item[3]
            f == Get(frequency, v, 0)
        IN ~FromVariable(v) =>
              /\ HighUse(s, f) => HasClass(v, "primary", 75, "primary")
              /\ ~HighUse(s, f) /\ ModerateUse(s, f) => HasClass(v, "accent", 65, "accents")
              /\ ~HighUse(s, f) /\ ~ModerateUse(s, f)
                    => /\ classification' = classification
                       /\ confidence_scores' = confidence_scores
              /\ ClassifiedAs(v, "primary", 75, "primary") => HighUse(s, f)
              /\ ClassifiedAs(v, "accent", 65, "accents") => ~HighUse(s, f) /\ ModerateUse(s, f)
    ]_vars

\* C8, amended: the rule of Pass 2 decides the occurrence of a color that has
\* no record yet (neither from Pass 1 nor from an earlier occurrence in Pass 2);
\* the occurrence of a color that has one changes nothing.
C8_RuleForUnclassified ==
    [][ItemStep =>
        LET item == computed_items[j]
        IN IF item[3] \notin DOMAIN confidence_scores
           THEN Pass2Rule(item[1], item[3], Get(frequency, item[3], 0))
           ELSE /\ classification' = classification
                /\ confidence_scores' = confidence_scores
    ]_vars

\* A color that Pass 2 classified primary was met again under an accent
\* selector with a moderate count, and it stayed primary.
C8_Witness ==
    /\ AfterItem
    /\ LastItem[1] \in {"[class*=\"secondary\"]", "a"}
    /\ Get(frequency, LastItem[3], 0) \in 5..9
    /\ LastItem[3] \in DOMAIN confidence_scores
    /\ confidence_scores[LastItem[3]].role = "primary"
    /\ confidence_scores[LastItem[3]].confidence = 75
    /\ LastItem[3] \notin Contents(classification.accents)

\* The name carries an intensity modifier or ends in a hyphen and digits.
Excluded(name) ==
    \/ \E modifier \in {"-light", "-dark", "-lighter", "-darker"} :
          Contains(Lower(name), modifier)
    \/ EndsInNumericSuffix(Lower(name))

\* C9: a variable that reaches the named-color group is classified accent with
\* confidence 0.85 iff its name is not excluded; an excluded variable adds
\* nothing to a bucket and creates no record; the value of a variable that is
\* not excluded, if it has no record yet, joins the accents with such a record.
C9_NamedColors ==
    [][VariableStep /\ FirstGroup(css_vars[i][1]) = 8 =>
        LET name == css_vars[i][1]
            value == css_vars[i][2]
        IN /\ (role' = "accent" /\ confidence' = 85) <=> ~Excluded(name)
           /\ Excluded(name) => /\ role' = None
                                /\ classification' = classification
                                /\ confidence_scores' = confidence_scores
           /\ ~Excluded(name) /\ value \notin DOMAIN confidence_scores
                 => ClassifiedAs(value, "accent", 85, "accents")
    ]_vars

\* A named-color variable with a numeric suffix has been processed and left
\* its value without record, after a base named color became an accent.
C9_Witness ==
    /\ AfterVariable
    /\ LastName = "--color-red-10"
    /\ role = None
    /\ LastValue \notin DOMAIN confidence_scores
    /\ Len(classification.accents) = 1
    /\ confidence_scores[classification.accents[1]].confidence = 85

\* C10: the returned primary, accents and neutrals are the first 2, 8 and 5
\* colors assigned to the role, and a color that a cap cut off is in no bucket
\* and in no utility slot of the result.
C10_CutNotReassigned ==
    [][call = "classify_colors" /\ ~returned /\ returned' =>
        /\ classification'.primary = SubSeq(classification.primary, 1,
                                            Min(2, Len(classification.primary)))
        /\ classification'.accents = SubSeq(classification.accents, 1,
                                            Min(8, Len(classification.accents)))
        /\ classification'.neutrals = SubSeq(classification.neutrals, 1,
                                             Min(5, Len(classification.neutrals)))
        /\ \A bucket \in {"primary", "accents", "neutrals"} :
              \A v \in Contents(classification[bucket]) \ Contents(classification'[bucket]) :
                  v \notin Contents(PlacedColors(classification'))
    ]_vars

\* The dict has no entry.
IsEmpty(d) == DOMAIN d = {}

\* C11: classify_colors on a palette without CSS variables and without color
\* frequencies and on empty computed colors returns empty primary, accents and
\* neutrals, four utility slots that hold nothing and an empty confidence map;
\* classify_fonts on an empty typography bundle and an empty per-selector map
\* returns no heading, body and monospace font, an empty accent_display and an
\* empty confidence map.
C11_EmptyInputsEmptyResult ==
    /\ (ColorsReturned /\ IsEmpty(css_vars) /\ IsEmpty(frequency)
          /\ IsEmpty(computed_colors_dict))
          => /\ classification.primary = <<>>
             /\ classification.accents = <<>>
             /\ classification.neutrals = <<>>
             /\ \A slot \in {"success", "error", "warning", "info"} :
                   classification.utility[slot] = None
             /\ IsEmpty(confidence_scores)
    /\ (FontsReturned /\ IsEmpty(typography) /\ IsEmpty(typography_data))
          => /\ classification.primary_heading = None
             /\ classification.body_text = None
             /\ classification.monospace_code = None
             /\ classification.accent_display = <<>>
             /\ IsEmpty(confidence_scores)

\* classify_colors has returned for a palette that lacks both keys.
C11_Witness ==
    /\ ColorsReturned
    /\ IsEmpty(color_palette)
    /\ IsEmpty(computed_colors_dict)
    /\ IsEmpty(confidence_scores)

\* A step of classify_fonts: the selector at position k is processed.
SelectorStep == call = "classify_fonts" /\ k' = k + 1

\* The selector at position k, its font-family declaration and the cleaned name.
ThisSelector == typography_data[k][1]
ThisFamily == IF "fontFamily" \in DOMAIN typography_data[k][2]
              THEN typography_data[k][2].fontFamily
              ELSE ""
ThisFont == CleanFont(ThisFamily)

\* classify_fonts skips the selector at position k.
Skipped == ThisFamily = "" \/ ThisFamily \in classified_fonts

\* The last selector classify_fonts processed, and its declaration.
AfterSelector == call = "classify_fonts" /\ k > 1 /\ ~returned
LastSelector == typography_data[k - 1][1]
LastFamily == IF "fontFamily" \in DOMAIN typography_data[k - 1][2]
              THEN typography_data[k - 1][2].fontFamily
              ELSE ""

HeadingRule == ThisSelector \in {"h1", "h2", "h3"} /\ classification.primary_heading = None
BodyRule == ThisSelector \in {"body", "p"} /\ classification.body_text = None
MonospaceRule ==
    \E word \in {"mono", "code"} :
        \E n \in 1..(Len(ThisFamily) - Len(word) + 1) :
            Lower(SubSeq(ThisFamily, n, n + Len(word) - 1)) = word
AccentRuleAsStated ==
    /\ ThisSelector \in {"button", ".btn", "nav", "strong"}
    /\ ThisFont \notin {classification.primary_heading, classification.body_text}
AccentRule == AccentRuleAsStated /\ ThisFont \notin classified_fonts

\* The step fills the slot with the cleaned name, with this role and confidence.
FillsSlot(slot, r, c) ==
    /\ classification' = [classification EXCEPT ![slot] = ThisFont]
    /\ role' = r
    /\ confidence' = c

\* The step appends the cleaned name to accent_display, with confidence 0.70.
AppendsAccent ==
    /\ classification' = [classification EXCEPT !.accent_display = Append(@, ThisFont)]
    /\ role' = "accent"
    /\ confidence' = 70

\* The first applicable rule, in priority order, fires; none changes nothing.
FirstRuleFires(accentRule) ==
    IF HeadingRule THEN FillsSlot("primary_heading", "primary_heading", 90)
    ELSE IF BodyRule THEN FillsSlot("body_text", "body_text", 95)
    ELSE IF MonospaceRule THEN FillsSlot("monospace_code", "monospace", 90)
    ELSE IF accentRule THEN AppendsAccent
    ELSE /\ classification' = classification
         /\ confidence_scores' = confidence_scores

C13_SlotFilledOnce ==
    [][call = "classify_fonts" =>
        \A slot \in {"primary_heading", "body_text", "monospace_code"} :
            classification[slot] # None => classification'[slot] = classification[slot]
    ]_vars

\* C14: in the returned font classification accent_display holds no font
\* twice and no font that fills primary_heading, body_text or monospace_code.
C14_AccentsApart ==
    FontsReturned =>
        /\ NoDuplicates(classification.accent_display)
        /\ \A name \in Contents(classification.accent_display) :
              name \notin {classification.primary_heading, classification.body_text,
                           classification.monospace_code}

\* C20: a selector whose declaration has a cleaned font name that an earlier
\* selector of the call classified is skipped: no slot, no accent_display
\* entry and no confidence record changes.
C20_SkipsClassifiedName ==
    [][SelectorStep /\ ThisFamily # "" /\ ThisFont \in classified_fonts =>
        /\ classification' = classification
        /\ confidence_scores' = confidence_scores
    ]_vars

\* The confidence constants of the rules, in hundredths.
RuleConstants == {95, 90, 85, 75, 70, 65, 50}

\* The constants of the rules that give a role: for colors the variable-name
\* rules and the two usage rules, for fonts the four selector rules.
ConstantsOfRole(r) ==
    IF call = "classify_colors"
    THEN CASE r = "primary" -> {95, 75}
           [] r = "accent" -> {90, 85, 65}
           [] r = "neutral" -> {95}
           [] r \in {"utility_success", "utility_error", "utility_warning"} -> {90}
           [] r = "utility_info" -> {85}
           [] OTHER -> {}
    ELSE CASE r = "primary_heading" -> {90}
           [] r = "body_text" -> {95}
           [] r = "monospace" -> {90}
           [] r = "accent" -> {70}
           [] OTHER -> {}

\* C15: every confidence value of the confidence maps lies in [0,1], is one of
\* the rule constants 0.95, 0.90, 0.85, 0.75, 0.70, 0.65, 0.50 and is a
\* constant of a rule that gives the record's role; the initial value 0.0 is
\* in no record.
C15_ConfidenceConstants ==
    \A v \in DOMAIN confidence_scores :
        /\ confidence_scores[v].confidence >= 0
        /\ confidence_scores[v].confidence <= 100
        /\ confidence_scores[v].confidence # 0
        /\ confidence_scores[v].confidence \in RuleConstants
        /\ confidence_scores[v].confidence \in ConstantsOfRole(confidence_scores[v].role)

\* A returned color confidence map with a record of a named color (0.85) and
\* a record of a heavily used color (0.75).
C15_Witness ==
    /\ ColorsReturned
    /\ \E v, w \in DOMAIN confidence_scores :
          /\ confidence_scores[v].confidence = 85 /\ confidence_scores[v].role = "accent"
          /\ confidence_scores[w].confidence = 75

\* C17: a CSS variable whose name matches no pattern group leaves every
\* bucket, every utility slot and the confidence map unchanged, whatever its
\* value is.
C17_UnmatchedNameIgnored ==
    [][VariableStep /\ FirstGroup(css_vars[i][1]) = 0 =>
        /\ classification' = classification
        /\ confidence_scores' = confidence_scores
    ]_vars

\* Variables with values that are no colors have been processed: one whose
\* name matches no group left no trace, one with a primary name became primary.
C17_Witness ==
    /\ AfterVariable
    /\ i = 3
    /\ css_vars[1][1] = "--spacing" /\ css_vars[1][2] = "16px"
    /\ css_vars[2][1] = "--primary-color" /\ css_vars[2][2] = "rgb(300, -1"
    /\ classification.primary = <<"rgb(300, -1">>
    /\ DOMAIN confidence_scores = {"rgb(300, -1"}

\* Two dicts with the same keys and the same values.
SameDict(a, b) == DOMAIN a = DOMAIN b /\ \A key \in DOMAIN a : a[key] = b[key]

UrlStep == main_pc = "loop" /\ next_url' = next_url + 1

\* The result object of a URL that could not be processed.
IsErrorResult(result, url, e) ==
    /\ result.url = url
    /\ result.fetch_status = "error"
    /\ result.error_details = e
    /\ result.error_details # None
    /\ result.data = NoData

\* The result object of a URL that was processed.
IsSuccessResult(result, url) ==
    /\ result.url = url
    /\ result.fetch_status = "success"
    /\ result.error_details = None
    /\ result.data # NoData

\* C18: an iteration of the URL loop appends exactly one result object for its
\* URL, and the loop goes on with the next URL: an error result with
\* error_details and without data, counted as failed, if the iteration raised,
\* and a success result with data, counted as successful, if not. The counts
\* of successful and failed URLs add up to the number of URLs processed, in
\* the loop and in the final output.
C18_OneResultPerUrl ==
    /\ [][UrlStep =>
            /\ Len(processed_urls_results_list') = Len(processed_urls_results_list) + 1
            /\ SubSeq(processed_urls_results_list', 1, Len(processed_urls_results_list))
                  = processed_urls_results_list
            /\ LET result == processed_urls_results_list'[Len(processed_urls_results_list')]
                   url == urls_to_process[next_url]
               IN IF caught' # None
                  THEN /\ IsErrorResult(result, url, caught')
                       /\ failed_fetches' = failed_fetches + 1
                       /\ successful_fetches' = successful_fetches
                  ELSE /\ IsSuccessResult(result, url)
                       /\ successful_fetches' = successful_fetches + 1
                       /\ failed_fetches' = failed_fetches
            /\ main_pc' = "loop"
        ]_vars
    /\ [](main_pc = "loop" =>
            /\ Len(processed_urls_results_list) = next_url - 1
            /\ successful_fetches + failed_fetches = next_url - 1)
    /\ [](final_json_output # NoData =>
            LET meta == final_json_output[1].collection_metadata
            IN /\ meta.total_urls_successful + meta.total_urls_failed
                     = meta.total_urls_processed
               /\ Len(final_json_output[1].url_analysis_results) = meta.total_urls_processed)

\* The final output of a run in which a navigation failed between two URLs
\* that were processed.
C18_Witness ==
    /\ final_json_output # NoData
    /\ Len(processed_urls_results_list) = 3
    /\ processed_urls_results_list[1].fetch_status = "success"
    /\ processed_urls_results_list[2].fetch_status = "error"
    /\ processed_urls_results_list[2].error_details = "Timeout 90000ms exceeded."
    /\ processed_urls_results_list[3].fetch_status = "success"
    /\ successful_fetches = 2
    /\ failed_fetches = 1

\* A step in which get_result answers a request for the job id.
Answers(job_id) ==
    /\ response' # response
    /\ response'.handler = "get_result"
    /\ response'.job_id = job_id

\* C19: GET /api/result/<job_id> answers 404 for an unknown job id, 400 for a
\* job that is pending, running or in error, 404 for a completed job without
\* result, and the stored result, with 200, only for a completed job whose
\* result is present; serving the request changes no job.
C19_ResultOnlyWhenCompleted ==
    [][/\ \A job_id \in {"job-0", "job-1", "job-2", "job-3"} :
             Answers(job_id) =>
                /\ job_id \notin DOMAIN analysis_jobs => response'.code = 404
                /\ job_id \in DOMAIN analysis_jobs =>
                      LET job == analysis_jobs[job_id]
                      IN /\ job.status \in {"pending", "running", "error"}
                               => response'.code = 400
                         /\ job.status = "completed" /\ job.result = None
                               => response'.code = 404
                         /\ job.status = "completed" /\ job.result \notin {None, "{}"}
                               => response'.code = 200
                /\ response'.code = 200 =>
                      /\ job_id \in DOMAIN analysis_jobs
                      /\ analysis_jobs[job_id].status = "completed"
                      /\ analysis_jobs[job_id].result # None
                      /\ response'.body = analysis_jobs[job_id].result
                /\ response'.code \in {200, 400, 404}
                /\ analysis_jobs' = analysis_jobs
       /\ handler' # handler => analysis_jobs' = analysis_jobs
    ]_vars

\* The request for the result of a completed job whose output file held null
\* has been answered 404.
C19_Witness ==
    /\ response.handler = "get_result"
    /\ response.job_id = "job-1"
    /\ response.code = 404
    /\ "job-1" \in DOMAIN analysis_jobs
    /\ analysis_jobs["job-1"].status = "completed"
    /\ analysis_jobs["job-1"].result = None

\* ------------------------------------------------------------------ C21

\* The step that ends classify_fonts: the limit of the accent fonts, the usage
\* information and the return.
FontsReturnStep == call = "classify_fonts" /\ ~returned /\ returned'

\* The cleaned names of the families of the typeface hierarchy.
TrackedFonts == {CleanFont(typeface_hierarchy[n][1]) : n \in 1..Len(typeface_hierarchy)}

UsageKeys == {"used_in_elements", "sample_size"}

\* C21: the usage information goes to a confidence record exactly when its font
\* name is the cleaned name of a family of the typeface hierarchy: such a record
\* gets used_in_elements and sample_size, every other record gets neither; no
\* record is created, no slot of the classification changes (the accent list is
\* only cut), and role, confidence and evidence of every record stay as they were.
C21_UsageAddedToTrackedRecords ==
    [][FontsReturnStep =>
         /\ DOMAIN confidence_scores' = DOMAIN confidence_scores
         /\ \A font \in DOMAIN confidence_scores :
               /\ UsageKeys \cap DOMAIN confidence_scores[font] = {}
               /\ DOMAIN confidence_scores'[font] =
                     IF font \in TrackedFonts
                     THEN {"role", "confidence", "evidence"} \cup UsageKeys
                     ELSE {"role", "confidence", "evidence"}
               /\ confidence_scores'[font].role = confidence_scores[font].role
               /\ confidence_scores'[font].confidence = confidence_scores[font].confidence
               /\ confidence_scores'[font].evidence = confidence_scores[font].evidence
         /\ \A slot \in {"primary_heading", "body_text", "monospace_code"} :
               classification'[slot] = classification[slot]
         /\ classification'.accent_display
               = SubSeq(classification.accent_display, 1,
                        Len(classification'.accent_display))]_vars

\* classify_fonts has returned a record with the usage information of a family
\* written with fallbacks, beside a record of a font the hierarchy does not track.
C21_Witness ==
    /\ FontsReturned
    /\ \E font \in DOMAIN confidence_scores :
          /\ font \in TrackedFonts
          /\ \E n \in 1..Len(typeface_hierarchy) :
                /\ typeface_hierarchy[n][1] # font
                /\ CleanFont(typeface_hierarchy[n][1]) = font
          /\ "used_in_elements" \in DOMAIN confidence_scores[font]
          /\ confidence_scores[font].used_in_elements # <<>>
    /\ \E font \in DOMAIN confidence_scores :
          /\ font \notin TrackedFonts
          /\ "used_in_elements" \notin DOMAIN confidence_scores[font]

\* ------------------------------------------------------------------ C22

\* The data of the n-th result object, the result of a processed page.
PageData(n) == processed_urls_results_list[n].data[1]

\* C22: each page is classified from its own signals: the computed colors passed
\* to classify_colors and the typography data passed to classify_fonts for a
\* URL were extracted from the page of that URL (or, for the fonts, nothing
\* was passed), never from the page of a URL processed before.
C22_PagesClassifiedApart ==
    \A n \in 1..Len(processed_urls_results_list) :
        processed_urls_results_list[n].fetch_status = "success" =>
            /\ PageData(n).color_classification = n
            /\ PageData(n).font_classification \in {n, Unbound}

\* ------------------------------------------------------------------ C23

\* C23: the computed colors main passes to classify_colors hold normalized
\* values, the strings that were counted: every value Pass 2 reads is its own
\* normalized form, and if the color is in the frequency table, the lookup of
\* the value gives the number of times the color was counted on the page.
C23_CountedValuesPassed ==
    call = "classify_colors" =>
        \A n \in 1..Len(computed_items) :
            LET color_value == computed_items[n][3]
                counted == extract_color_from_rgb(color_value)
                all_colors == AllColors(computed_colors_dict, 1)
            IN CountOf(all_colors, counted) > 0 =>
                  /\ color_value = counted
                  /\ counted \in DOMAIN frequency =>
                        Get(frequency, color_value, 0) = CountOf(all_colors, counted)

\* ------------------------------------------------------------------ C24

\* The color values of the input: the values of css_custom_properties and the
\* values of the styles of computed_colors.
InputColors ==
    {css_vars[n][2] : n \in 1..Len(css_vars)}
        \cup {computed_items[n][3] : n \in 1..Len(computed_items)}

\* C24: classify_colors creates and rewrites no color string: every color of
\* the buckets and of the utility slots, and every key of the confidence map,
\* is, character for character, a value of css_custom_properties or a value
\* found in computed_colors.
C24_ColorsVerbatim ==
    call = "classify_colors" =>
        /\ Contents(PlacedColors(classification)) \subseteq InputColors
        /\ DOMAIN confidence_scores \subseteq InputColors

\* classify_colors has returned colors that are not lower-case hex strings: a
\* variable value in upper case, a color name, and a computed value in a form
\* the collector does not convert.
C24_Witness ==
    /\ ColorsReturned
    /\ "#1A73E8" \in Contents(classification.primary)
    /\ classification.utility.success = "Green"
    /\ "oklch(0.7 0.1 200)" \in Contents(classification.accents)
    /\ {"#1A73E8", "Green", "oklch(0.7 0.1 200)"} \subseteq DOMAIN confidence_scores

\* ------------------------------------------------------------------ C25

\* C25: the confidence map returned by classify_colors has records only for
\* colors that are in a bucket or a utility slot of the returned
\* classification, and the one returned by classify_fonts only for fonts that
\* fill a slot or are listed in accent_display.
C25_RecordsOnlyForOutput ==
    /\ ColorsReturned =>
          DOMAIN confidence_scores \subseteq Contents(PlacedColors(classification))
    /\ FontsReturned =>
          DOMAIN confidence_scores
              \subseteq Contents(SlotFonts(classification))
                            \cup Contents(classification.accent_display)

\* ------------------------------------------------------------------ C26

\* The role a confidence record gives to the members of a bucket.
RoleOfBucket == [primary |-> "primary", accents |-> "accent", neutrals |-> "neutral"]

\* The color has a confidence record with the role r.
HasRole(color, r) ==
    color \in DOMAIN confidence_scores /\ confidence_scores[color].role = r

\* C26: in the result of classify_colors the role of a color's confidence
\* record names the place that holds the color: primary, accent or neutral for
\* a member of that bucket, utility_<slot> for the color of a utility slot.
C26_RoleNamesPlace ==
    ColorsReturned =>
        /\ \A bucket \in DOMAIN RoleOfBucket :
              \A color \in Contents(classification[bucket]) :
                  HasRole(color, RoleOfBucket[bucket])
        /\ \A slot \in Contents(UtilitySlots) :
              classification.utility[slot] # None =>
                  HasRole(classification.utility[slot], "utility_" \o slot)

\* ------------------------------------------------------------------ C27

\* The group of the n-th CSS variable.
GroupOfVariable(n) == PatternGroup(Lower(css_vars[n][1]))

\* C27: a utility slot of the result holds the value of the first variable, in
\* iteration order, that matches the group of the slot: a later variable of
\* the same group does not replace it.
C27_FirstUtilityVariableKept ==
    ColorsReturned =>
        \A slot \in UtilityGroups :
            \A n \in 1..Len(css_vars) :
                (/\ GroupOfVariable(n) = slot
                 /\ \A m \in 1..(n - 1) : GroupOfVariable(m) # slot)
                    => classification.utility[slot] = css_vars[n][2]

\* ------------------------------------------------------------------ C28

\* The changes of status of a job.
StatusChanges ==
    {<<"pending", "running">>, <<"running", "completed">>, <<"running", "error">>}

\* C28: a job starts pending and its status only goes from pending to running
\* and from running to completed or to error, so completed and error are
\* never left; its progress never decreases; and every job that was started
\* is at last completed or in error, provided its thread keeps running and the
\* collector exits or its timeout expires.
C28_JobLifecycle ==
    /\ [][/\ \A job_id \in DOMAIN analysis_jobs' \ DOMAIN analysis_jobs :
                /\ analysis_jobs'[job_id].status = "pending"
                /\ analysis_jobs'[job_id].progress = 0
          /\ \A job_id \in DOMAIN analysis_jobs :
                /\ job_id \in DOMAIN analysis_jobs'
                /\ analysis_jobs'[job_id].status # analysis_jobs[job_id].status =>
                      <<analysis_jobs[job_id].status, analysis_jobs'[job_id].status>>
                          \in StatusChanges
                /\ analysis_jobs'[job_id].progress >= analysis_jobs[job_id].progress]_vars
    /\ \A job_id \in JobIds :
          (job_id \in DOMAIN analysis_jobs)
              ~> (/\ job_id \in DOMAIN analysis_jobs
                  /\ analysis_jobs[job_id].status \in {"completed", "error"})

\* The thread of a batch job has ended after the timeout of the collector
\* expired: the job is in error, with the progress it had reached.
C28_Witness ==
    /\ "job-1" \in DOMAIN analysis_jobs
    /\ worker["job-1"].pc = "done"
    /\ analysis_jobs["job-1"].status = "error"
    /\ analysis_jobs["job-1"].error = "Analysis timed out"
    /\ analysis_jobs["job-1"].progress = 30

\* What a job holds as its result after a collector run on the URLs.
ResultsOf(urls) == {json_load(content) : content \in OutputFiles(urls)}

\* C29: of jobs that run side by side, the collector of each job works on the
\* URLs of that job, and the result of a completed job is the output of a
\* collector run on the job's own URLs.
C29_JobsKeepApart ==
    \A job_id \in DOMAIN analysis_jobs :
        LET job == analysis_jobs[job_id]
        IN /\ worker[job_id].loaded # NoData => worker[job_id].loaded[1] = job.urls
           /\ job.status = "completed" => job.result \in ResultsOf(job.urls)

\* The fields of a job agree with its status.
StatusAgrees(job) ==
    /\ job.status = "error" => job.error # None
    /\ job.status = "completed" =>
          /\ job.result \in ResultsOf(job.urls)
          /\ job.progress = 100
          /\ job.completed_at # None

\* C30: whenever the status of a job is read while its thread runs, a job in
\* error has its error set, and a completed job has its result loaded,
\* progress 100 and a completion time; so has every answer of /api/status.
C30_StatusConsistent ==
    /\ \A job_id \in DOMAIN analysis_jobs : StatusAgrees(analysis_jobs[job_id])
    /\ (response # NoResponse /\ response.handler = "get_status" /\ response.code = 200)
          => StatusAgrees(response.body)

====
